---- MODULE Spec2Model ----
(***************************************************************************)
(* A model of the doubly linked List<T> of ListContainer.h.                *)
(*                                                                         *)
(* The heap is modelled at the level of node addresses: every node has a   *)
(* data field and the two links prevPtr and nextPtr, every List object has *)
(* firstPtr, lastPtr and numberOfNodes.  The member functions are          *)
(* translated statement by statement into operators on a machine record m  *)
(* that holds the heap, the List objects and the status of the call that   *)
(* is running.                                                             *)
(*                                                                         *)
(* Undefined behaviour.  Every p->field access is preceded by Deref(m, p). *)
(* An access through a null pointer stops the call (fault "null").  An     *)
(* access through a pointer to a deleted node (fault "dangling") has two   *)
(* outcomes, chosen by the caller of the operation: the call stops there   *)
(* (m.trap), or it goes on and reads and writes the memory of the deleted  *)
(* node, which still holds what was last stored there.  A function that    *)
(* flows off its end without a return statement (fault "noreturn") either  *)
(* returns to its caller or stops.  A run is followed up to the first      *)
(* undefined behaviour it meets: the state that call leaves is the last    *)
(* one, and crashed tells whether the program stopped in the call.         *)
(*                                                                         *)
(* Addresses.  Node addresses are opaque to the code (it compares them     *)
(* for equality only), so states that differ by a renaming of addresses    *)
(* are the same program state.  Canon renames the addresses of the state   *)
(* an operation leaves into a fixed order.                                 *)
(*                                                                         *)
(* Array<T> of ArrayContainer.h is modelled in the same way: every Array   *)
(* object has size and container, the buffers new T[n] returns are kept    *)
(* with their elements, and an exception is kept with its type, message,   *)
(* index and size.  The elements of a new buffer are not initialised: they *)
(* hold any values.  An access outside a buffer (fault "overrun") has the  *)
(* two outcomes of an access to a deleted node.                            *)
(*                                                                         *)
(* Spec is the program that uses the lists, ArraySpec the program that     *)
(* uses the arrays, SwapSpec runs the private List::SwapNodes on its own.  *)
(***************************************************************************)
EXTENDS Integers, Sequences, FiniteSets, TLC

\* ------------------------------------------------------------------ bounds
MaxNodes == 4      \* most nodes alive at a time
MaxVal   == 2      \* element values are 1..MaxVal
SwapLen  == 5      \* longest list whose nodes are swapped pairwise
MaxSize  == 2      \* largest Array size

\* --------------------------------------------------------------- constants
NULL     == 0      \* nullptr
NumLists == 2      \* the List objects of the program
NumArrays == 2     \* the Array objects of the program

ListId == 1..NumLists
Addr   == 1..(MaxNodes + NumLists)   \* each empty list may pin one deleted node
Ptr    == Addr \cup {NULL}
Value  == 1..MaxVal

ArrayId == 1..NumArrays

VARIABLES
    data,            \* ListNode::data          [Addr -> Value]
    prevPtr,         \* ListNode::prevPtr       [Addr -> Ptr]
    nextPtr,         \* ListNode::nextPtr       [Addr -> Ptr]
    live,            \* the nodes created by new and not yet deleted
    firstPtr,        \* List::firstPtr          [ListId -> Ptr]
    lastPtr,         \* List::lastPtr           [ListId -> Ptr]
    numberOfNodes,   \* List::numberOfNodes     [ListId -> Nat]
    fault,           \* the undefined behaviour the run has met ("none": none)
    crashed,         \* the program stopped at that undefined behaviour
    err,             \* the last operation threw std::logic_error
    op,              \* the call the observer has marked ("none": none yet)
    size,            \* Array::size            [ArrayId -> Nat]
    container,       \* Array::container       [ArrayId -> buffer or NULL]
    heap,            \* the buffers new T[n] has returned, not yet deleted,
                     \* with their elements    [buffers -> Seq(Value)]
    built,           \* the Array objects that have been constructed
    thrown           \* the exception the last Array call has thrown:
                     \* its type, its message, and the index and size
                     \* the message of std::range_error carries

vars == <<data, prevPtr, nextPtr, live, firstPtr, lastPtr, numberOfNodes,
          fault, crashed, err, op, size, container, heap, built, thrown>>

\* ------------------------------------------------------------ the machine
\* The record the member functions work on.  stop: the running call has
\* ended early (exception, crash).  oom: the call needed more nodes than
\* the model has (the step is then not taken).
Machine(trap) ==
    [data |-> data, prevPtr |-> prevPtr, nextPtr |-> nextPtr, live |-> live,
     firstPtr |-> firstPtr, lastPtr |-> lastPtr,
     numberOfNodes |-> numberOfNodes,
     fault |-> fault, thrown |-> FALSE, stop |-> FALSE, oom |-> FALSE,
     trap |-> trap]

\* A sequence of statements is written as the composition of one operator
\* per statement, each taking the machine the statement before it leaves.

\* throw std::logic_error(...)
Throw(m) == IF m.stop THEN m ELSE [m EXCEPT !.thrown = TRUE, !.stop = TRUE]

Flag(m, kind) == IF m.fault = "none" THEN kind ELSE m.fault

\* The check every access p->field implies.
Deref(m, p) ==
    IF m.stop THEN m
    ELSE IF p = NULL
         THEN [m EXCEPT !.fault = Flag(m, "null"), !.stop = TRUE]
    ELSE IF p \notin m.live
         THEN [m EXCEPT !.fault = Flag(m, "dangling"), !.stop = m.trap]
    ELSE m

\* The stores into the fields of node p, once p has been checked.
StoreNext(c, p, q) == IF c.stop THEN c ELSE [c EXCEPT !.nextPtr[p] = q]
StorePrev(c, p, q) == IF c.stop THEN c ELSE [c EXCEPT !.prevPtr[p] = q]
StoreData(c, p, d) == IF c.stop THEN c ELSE [c EXCEPT !.data[p] = d]

\* p->nextPtr = q, p->prevPtr = q, p->data = d
SetNext(m, p, q) == StoreNext(Deref(m, p), p, q)
SetPrev(m, p, q) == StorePrev(Deref(m, p), p, q)
SetData(m, p, d) == StoreData(Deref(m, p), p, d)

\* The value read by p->nextPtr, p->prevPtr, p->data after Deref(m, p).
Next_(m, p) == IF m.stop THEN NULL ELSE m.nextPtr[p]
Prev_(m, p) == IF m.stop THEN NULL ELSE m.prevPtr[p]
Data_(m, p) == IF m.stop THEN 1 ELSE m.data[p]

\* p->nextPtr->prevPtr = q and p->prevPtr->nextPtr = q, once p is checked
StoreNextPrev(c, p, q) == SetPrev(c, Next_(c, p), q)
StorePrevNext(c, p, q) == SetNext(c, Prev_(c, p), q)

\* p->nextPtr->prevPtr = q, p->prevPtr->nextPtr = q
SetNextPrev(m, p, q) == StoreNextPrev(Deref(m, p), p, q)
SetPrevNext(m, p, q) == StorePrevNext(Deref(m, p), p, q)

\* p->nextPtr = q->nextPtr and p->prevPtr = q->prevPtr, once q is checked
LoadNext(c, p, q) == SetNext(c, p, Next_(c, q))
LoadPrev(c, p, q) == SetPrev(c, p, Prev_(c, q))

\* p->nextPtr = q->nextPtr, p->prevPtr = q->prevPtr
CopyNext(m, p, q) == LoadNext(Deref(m, q), p, q)
CopyPrev(m, p, q) == LoadPrev(Deref(m, q), p, q)

\* The addresses the pointers in S, and the links of the nodes there, lead
\* to.
RECURSIVE Closure(_, _)
Closure(m, S) ==
    LET Linked(T) ==
            (T \cup {m.nextPtr[a] : a \in T} \cup {m.prevPtr[a] : a \in T})
                \ {NULL}
    IN  IF Linked(S) = S THEN S ELSE Closure(m, Linked(S))

\* The addresses some pointer of the program can still lead to.
Referenced(m) ==
    Closure(m, ({m.firstPtr[l] : l \in ListId}
                   \cup {m.lastPtr[l] : l \in ListId}) \ {NULL})

Min(S) == CHOOSE x \in S : \A y \in S : x <= y

\* The address new ListNode<T>(...) returns (NULL: the model is out of nodes).
NewAddr(m) ==
    LET FreeAddr(x) == Addr \ (x.live \cup Referenced(x))
    IN  IF Cardinality(m.live) >= MaxNodes \/ FreeAddr(m) = {} THEN NULL
        ELSE Min(FreeAddr(m))

\* ListNode::ListNode at the address a that new has returned
Construct(m, a, d) ==
    IF m.stop THEN m
    ELSE IF a = NULL THEN [m EXCEPT !.oom = TRUE, !.stop = TRUE]
    ELSE [m EXCEPT !.live = @ \cup {a}, !.data[a] = d,
                   !.prevPtr[a] = NULL, !.nextPtr[a] = NULL]

\* A removal that forgets delete.
DeleteForgotten(m, p) == m

\* delete p
Delete(m, p) ==
    IF m.stop \/ p = NULL THEN m
    ELSE IF p \notin m.live
         THEN [m EXCEPT !.fault = Flag(m, "dangling"), !.stop = m.trap]
    ELSE [m EXCEPT !.live = @ \ {p}]

\* firstPtr = p, lastPtr = p, numberOfNodes = n of List l
SetFirst(m, l, p) == IF m.stop THEN m ELSE [m EXCEPT !.firstPtr[l] = p]
SetLast(m, l, p)  == IF m.stop THEN m ELSE [m EXCEPT !.lastPtr[l] = p]
SetCount(m, l, n) == IF m.stop THEN m ELSE [m EXCEPT !.numberOfNodes[l] = n]

\* An insertion that forgets numberOfNodes++.
IncreaseForgotten(m, l) == m

\* numberOfNodes++
Increase(m, l) == SetCount(m, l, m.numberOfNodes[l] + 1)
\* A removal that forgets numberOfNodes--.
DecreaseForgotten(m, l) == m

\* numberOfNodes-- (size_t; it is never applied to 0: TypeOK)
Decrease(m, l) == SetCount(m, l, m.numberOfNodes[l] - 1)

\* An isEmpty that looks at the head pointer instead of the count.
isEmptyByHead(m, l) == m.firstPtr[l] = NULL

isEmpty(m, l) == m.numberOfNodes[l] = 0
GetNodeCount(m, l) == m.numberOfNodes[l]

\* ------------------------------------------------------- insertion at ends
\* List::Append(const T&); a is the address new returns
AppendData(m, l, d) ==
    LET a == NewAddr(m)
        First1(x) == SetFirst(x, l, a)            \* firstPtr = new ...
        First2(x) == SetLast(x, l, x.firstPtr[l]) \* lastPtr = firstPtr
        Link1(x) == SetNext(x, x.lastPtr[l], a)   \* lastPtr->nextPtr = new ...
        Link2(x) == SetNextPrev(x, x.lastPtr[l], x.lastPtr[l])
        Link3(x) == SetLast(x, l, Next_(x, x.lastPtr[l])) \* lastPtr = ...
    IN  IF m.stop THEN m
        ELSE IF isEmpty(m, l)
             THEN Increase(First2(First1(Construct(m, a, d))), l)
             ELSE Increase(Link3(Link2(Link1(Construct(m, a, d)))), l)

\* List::Prepend(const T&)
PrependData(m, l, d) ==
    LET a == NewAddr(m)
        First1(x) == SetFirst(x, l, a)
        First2(x) == SetLast(x, l, x.firstPtr[l])
        Link1(x) == SetPrev(x, x.firstPtr[l], a)  \* firstPtr->prevPtr = new ...
        Link2(x) == SetPrevNext(x, x.firstPtr[l], x.firstPtr[l])
        Link3(x) == SetFirst(x, l, Prev_(x, x.firstPtr[l]))
    IN  IF m.stop THEN m
        ELSE IF isEmpty(m, l)
             THEN Increase(First2(First1(Construct(m, a, d))), l)
             ELSE Increase(Link3(Link2(Link1(Construct(m, a, d)))), l)

\* List::EmplaceAppend(Args&&...), called with the one argument d: the
\* constructor ListNode(Args&&...) initialises data(d) and both links null
EmplaceAppend(m, l, d) ==
    LET a == NewAddr(m)
        First1(x) == SetFirst(x, l, a)
        First2(x) == SetLast(x, l, x.firstPtr[l])
        Link1(x) == SetNext(x, x.lastPtr[l], a)
        Link2(x) == SetNextPrev(x, x.lastPtr[l], x.lastPtr[l])
        Link3(x) == SetLast(x, l, Next_(x, x.lastPtr[l]))
    IN  IF m.stop THEN m
        ELSE IF isEmpty(m, l)
             THEN Increase(First2(First1(Construct(m, a, d))), l)
             ELSE Increase(Link3(Link2(Link1(Construct(m, a, d)))), l)

\* List::EmplacePrepend(Args&&...), called with the one argument d
EmplacePrepend(m, l, d) ==
    LET a == NewAddr(m)
        First1(x) == SetFirst(x, l, a)
        First2(x) == SetLast(x, l, x.firstPtr[l])
        Link1(x) == SetPrev(x, x.firstPtr[l], a)
        Link2(x) == SetPrevNext(x, x.firstPtr[l], x.firstPtr[l])
        Link3(x) == SetFirst(x, l, Prev_(x, x.firstPtr[l]))
    IN  IF m.stop THEN m
        ELSE IF isEmpty(m, l)
             THEN Increase(First2(First1(Construct(m, a, d))), l)
             ELSE Increase(Link3(Link2(Link1(Construct(m, a, d)))), l)

\* --------------------------------------------------------- removal at ends
\* List::RemoveFirst
RemoveFirst(m, l) ==
    LET tempPtr == m.firstPtr[l]
        Step1(x) == SetFirst(x, l, Next_(x, tempPtr))
        Step2(x) == Delete(x, tempPtr)
        Step3(x) == IF x.stop \/ x.firstPtr[l] = NULL THEN x
                    ELSE SetPrev(x, x.firstPtr[l], NULL)
    IN  IF m.stop \/ isEmpty(m, l) THEN m
        ELSE Step3(Decrease(Step2(Step1(Deref(m, tempPtr))), l))

\* List::RemoveLast
RemoveLast(m, l) ==
    LET tempPtr == m.lastPtr[l]
        Step1(x) == SetLast(x, l, Prev_(x, tempPtr))
        Step2(x) == Delete(x, tempPtr)
        Step3(x) == IF x.stop \/ x.lastPtr[l] = NULL THEN x
                    ELSE SetNext(x, x.lastPtr[l], NULL)
    IN  IF m.stop \/ isEmpty(m, l) THEN m
        ELSE Step3(Decrease(Step2(Step1(Deref(m, tempPtr))), l))

\* ---------------------------------------------------------------- search
\* The search functions return the node found together with the machine
\* (a search can fault): [m |-> machine, p |-> node or NULL].
Found(m, p) == [m |-> m, p |-> IF m.stop THEN NULL ELSE p]

\* List::Find
RECURSIVE Find(_, _, _)
Find(m, d, currentNode) ==
    LET Test(c) == IF c.stop THEN Found(c, NULL)
                   ELSE IF c.data[currentNode] = d THEN Found(c, currentNode)
                   ELSE Find(c, d, c.nextPtr[currentNode])
    IN  IF m.stop \/ currentNode = NULL THEN Found(m, currentNode)
        ELSE Test(Deref(m, currentNode))

\* List::FindNotOf
RECURSIVE FindNotOf(_, _, _)
FindNotOf(m, d, currentNode) ==
    LET Test(c) == IF c.stop THEN Found(c, NULL)
                   ELSE IF c.data[currentNode] # d THEN Found(c, currentNode)
                   ELSE FindNotOf(c, d, c.nextPtr[currentNode])
    IN  IF m.stop \/ currentNode = NULL THEN Found(m, currentNode)
        ELSE Test(Deref(m, currentNode))

\* List::FindReversed
RECURSIVE FindReversed(_, _, _)
FindReversed(m, d, currentNode) ==
    LET Test(c) == IF c.stop THEN Found(c, NULL)
                   ELSE IF c.data[currentNode] = d THEN Found(c, currentNode)
                   ELSE FindReversed(c, d, c.prevPtr[currentNode])
    IN  IF m.stop \/ currentNode = NULL THEN Found(m, currentNode)
        ELSE Test(Deref(m, currentNode))

\* List::FindNotOfReversed
RECURSIVE FindNotOfReversed(_, _, _)
FindNotOfReversed(m, d, currentNode) ==
    LET Test(c) == IF c.stop THEN Found(c, NULL)
                   ELSE IF c.data[currentNode] # d THEN Found(c, currentNode)
                   ELSE FindNotOfReversed(c, d, c.prevPtr[currentNode])
    IN  IF m.stop \/ currentNode = NULL THEN Found(m, currentNode)
        ELSE Test(Deref(m, currentNode))

\* The loop of List::FindMinimum
\* A search that takes the last of the least nodes (<= instead of <).
RECURSIVE FindMinimumLoopLast(_, _, _)
FindMinimumLoopLast(m, currentNode, minNode) ==
    LET Test(c) == IF c.stop THEN Found(c, NULL)
                   ELSE FindMinimumLoopLast(c, c.nextPtr[currentNode],
                            IF c.data[currentNode] <= c.data[minNode]
                            THEN currentNode ELSE minNode)
    IN  IF m.stop \/ currentNode = NULL THEN Found(m, minNode)
        ELSE Test(Deref(Deref(m, currentNode), minNode))

RECURSIVE FindMinimumLoop(_, _, _)
FindMinimumLoop(m, currentNode, minNode) ==
    LET Test(c) == IF c.stop THEN Found(c, NULL)
                   ELSE FindMinimumLoop(c, c.nextPtr[currentNode],
                            IF c.data[currentNode] < c.data[minNode]
                            THEN currentNode ELSE minNode)
    IN  IF m.stop \/ currentNode = NULL THEN Found(m, minNode)
        ELSE Test(Deref(Deref(m, currentNode), minNode))

\* List::FindMinimum
FindMinimum(m, l, beginByNode) ==
    LET Start(c) == FindMinimumLoop(c, Next_(c, beginByNode), beginByNode)
    IN  IF m.stop THEN Found(m, NULL)
        ELSE IF beginByNode = NULL THEN Found(Throw(m), NULL)
        ELSE IF isEmpty(m, l) THEN Found(Throw(m), NULL)
        ELSE Start(Deref(m, beginByNode))

\* ---------------------------------------------------------------- removal
\* List::RemoveNode
RemoveNode(m, l, removingNode) ==
    LET Step1(x) == SetNextPrev(x, removingNode, Prev_(x, removingNode))
        Step2(x) == SetPrevNext(x, removingNode, Next_(x, removingNode))
        Step3(x) == Delete(x, removingNode)
    IN  IF m.stop \/ removingNode = NULL THEN m
        ELSE IF removingNode = m.firstPtr[l] THEN RemoveFirst(m, l)
        ELSE IF removingNode = m.lastPtr[l] THEN RemoveLast(m, l)
        ELSE Decrease(Step3(Step2(Step1(Deref(m, removingNode)))), l)

\* List::DetachNode
DetachNode(m, l, removingNode) ==
    LET Step1(x) == IF x.stop THEN x
                    ELSE IF removingNode = x.firstPtr[l]
                    THEN SetFirst(x, l, Next_(x, removingNode))
                    ELSE SetPrevNext(x, removingNode, Next_(x, removingNode))
        Step2(x) == IF x.stop THEN x
                    ELSE IF removingNode = x.lastPtr[l]
                    THEN SetLast(x, l, Prev_(x, removingNode))
                    ELSE SetNextPrev(x, removingNode, Prev_(x, removingNode))
        Step3(x) == SetNext(x, removingNode, NULL)
        Step4(x) == SetPrev(x, removingNode, NULL)
    IN  IF m.stop THEN m
        ELSE IF isEmpty(m, l) THEN Throw(m)
        ELSE Decrease(Step4(Step3(Step2(Step1(Deref(m, removingNode))))), l)

\* The loop of List::RemoveIf(RuleT); Predicate is the set of the values
\* the caller's predicate is true of.
RECURSIVE RemoveIfPredLoop(_, _, _, _)
RemoveIfPredLoop(m, l, Predicate, currentNode) ==
    LET Test(c) == IF c.stop THEN c
                   ELSE IF c.data[currentNode] \in Predicate
                        THEN RemoveNode(c, l, currentNode)
                        ELSE c
        Body(c) == RemoveIfPredLoop(Test(c), l, Predicate,
                                    Next_(c, currentNode))
    IN  IF m.stop \/ currentNode = NULL THEN m
        ELSE Body(Deref(m, currentNode))

\* List::RemoveIf(RuleT)
RemoveIfPred(m, l, Predicate) ==
    RemoveIfPredLoop(m, l, Predicate, m.firstPtr[l])

\* The loop of List::RemoveIf(const T&, ListNode*); r is the node found
RECURSIVE RemoveIfLoop(_, _, _)
RemoveIfLoop(r, l, d) ==
    LET removingNode == r.p
        Body(c) == RemoveIfLoop(Find(RemoveNode(c, l, removingNode), d,
                                     Next_(c, removingNode)), l, d)
    IN  IF r.m.stop \/ removingNode = NULL THEN r.m
        ELSE Body(Deref(r.m, removingNode))

\* List::RemoveIf(const T&, ListNode*)
RemoveIfFrom(m, l, d, beginByNode) ==
    RemoveIfLoop(Find(m, d, beginByNode), l, d)

\* List::RemoveIf(const T&)
RemoveIfData(m, l, d) == RemoveIfFrom(m, l, d, m.firstPtr[l])

\* RemoveNode(node found)
RemoveFound(r, l) == RemoveNode(r.m, l, r.p)

\* List::RemoveFirstOf
RemoveFirstOf(m, l, d) == RemoveFound(Find(m, d, m.firstPtr[l]), l)

\* List::RemoveLastOf
RemoveLastOf(m, l, d) == RemoveFound(FindReversed(m, d, m.lastPtr[l]), l)

\* The loop of List::RemoveIfNot; r is the node found
RECURSIVE RemoveIfNotLoop(_, _, _)
RemoveIfNotLoop(r, l, d) ==
    LET removingNode == r.p
        Body(c) == RemoveIfNotLoop(FindNotOf(RemoveNode(c, l, removingNode),
                                       d, Next_(c, removingNode)), l, d)
    IN  IF r.m.stop \/ removingNode = NULL THEN r.m
        ELSE Body(Deref(r.m, removingNode))

\* List::RemoveIfNot
RemoveIfNot(m, l, d) == RemoveIfNotLoop(FindNotOf(m, d, m.firstPtr[l]), l, d)

\* List::RemoveFirstNotOf
RemoveFirstNotOf(m, l, d) == RemoveFound(FindNotOf(m, d, m.firstPtr[l]), l)

\* List::RemoveLastNotOf
RemoveLastNotOf(m, l, d) ==
    RemoveFound(FindNotOfReversed(m, d, m.lastPtr[l]), l)

\* The loop of List::EraseAll and of List::~List
RECURSIVE EraseLoop(_, _)
EraseLoop(m, l) ==
    IF m.stop \/ isEmpty(m, l) THEN m ELSE EraseLoop(RemoveFirst(m, l), l)

\* List::EraseAll: the function has no return statement, so control
\* reaches the end of a function that must return a value.
EraseAll(m, l) ==
    LET NoReturn(x) ==
            IF x.stop THEN x
            ELSE [x EXCEPT !.fault = Flag(x, "noreturn"), !.stop = x.trap]
    IN  NoReturn(EraseLoop(m, l))

\* ---------------------------------------------------------------- replace
\* The loop of List::ReplaceAllWith
RECURSIVE ReplaceAllLoop(_, _, _, _)
ReplaceAllLoop(m, oldData, newData, currentNode) ==
    LET Next1(x, p) == ReplaceAllLoop(x, oldData, newData, Next_(x, p))
        Body(r) == IF r.m.stop \/ r.p = NULL THEN r.m
                   ELSE Next1(SetData(r.m, r.p, newData), r.p)
    IN  IF m.stop \/ currentNode = NULL THEN m
        ELSE Body(Find(m, oldData, currentNode))

\* List::ReplaceAllWith
ReplaceAllWith(m, l, oldData, newData) ==
    ReplaceAllLoop(m, oldData, newData, m.firstPtr[l])

\* if(currentNode != nullptr) currentNode->data = newData
ReplaceFound(r, newData) ==
    IF r.m.stop \/ r.p = NULL THEN r.m ELSE SetData(r.m, r.p, newData)

\* List::ReplaceFirstWith
ReplaceFirstWith(m, l, oldData, newData) ==
    ReplaceFound(Find(m, oldData, m.firstPtr[l]), newData)

\* List::ReplaceLastWith
ReplaceLastWith(m, l, oldData, newData) ==
    ReplaceFound(FindReversed(m, oldData, m.lastPtr[l]), newData)

\* ------------------------------------------------------------- operations
\* An operator== that compares the counts.
ListEqByCount(m, l, anotherList) ==
    m.numberOfNodes[l] = m.numberOfNodes[anotherList]

\* List::operator==
ListEq(m, l, anotherList) == m.firstPtr[l] = m.firstPtr[anotherList]

\* List::operator!=
ListNe(m, l, anotherList) == ~ListEq(m, l, anotherList)

\* List::Swap
Swap(m, l, anotherList) ==
    IF m.stop \/ ListEq(m, l, anotherList) THEN m
    ELSE [m EXCEPT
            !.firstPtr = [@ EXCEPT ![l] = m.firstPtr[anotherList],
                                   ![anotherList] = m.firstPtr[l]],
            !.lastPtr  = [@ EXCEPT ![l] = m.lastPtr[anotherList],
                                   ![anotherList] = m.lastPtr[l]],
            !.numberOfNodes = [@ EXCEPT ![l] = m.numberOfNodes[anotherList],
                                        ![anotherList] = m.numberOfNodes[l]]]

\* The two loops of List::Resize
RECURSIVE ResizeShrink(_, _, _)
ResizeShrink(m, l, newSize) ==
    IF m.stop \/ ~(newSize < GetNodeCount(m, l)) THEN m
    ELSE ResizeShrink(RemoveLast(m, l), l, newSize)

\* A growing loop that appends one node too few.
RECURSIVE ResizeGrowShort(_, _, _, _)
ResizeGrowShort(m, l, newSize, d) ==
    IF m.stop \/ ~(newSize > GetNodeCount(m, l) + 1) THEN m
    ELSE ResizeGrowShort(AppendData(m, l, d), l, newSize, d)

RECURSIVE ResizeGrow(_, _, _, _)
ResizeGrow(m, l, newSize, d) ==
    IF m.stop \/ ~(newSize > GetNodeCount(m, l)) THEN m
    ELSE ResizeGrow(AppendData(m, l, d), l, newSize, d)

\* List::Resize
Resize(m, l, newSize, d) ==
    ResizeGrow(ResizeShrink(m, l, newSize), l, newSize, d)

\* The loop of List::Unique
RECURSIVE UniqueLoop(_, _, _)
UniqueLoop(m, l, currentNode) ==
    LET Step1(c) == RemoveIfFrom(c, l, Data_(c, currentNode),
                                 Next_(c, currentNode))
        Step2(c) == UniqueLoop(c, l, Next_(c, currentNode))
    IN  IF m.stop \/ currentNode = NULL THEN m
        ELSE Step2(Deref(Step1(Deref(m, currentNode)), currentNode))

\* List::Unique
Unique(m, l) == UniqueLoop(m, l, m.firstPtr[l])

\* List::SwapSuccessiveNodes
SwapSuccessiveNodes(m, l, firstNode, secondNode) ==
    LET Step1(x) == LoadPrev(x, secondNode, firstNode)
        Step2(x) == CopyNext(x, firstNode, secondNode)
        Step3(x) == IF x.stop THEN x
                    ELSE IF firstNode # x.firstPtr[l]
                         THEN SetPrevNext(x, firstNode, secondNode)
                         ELSE SetFirst(x, l, secondNode)
        Step4(x) == IF x.stop THEN x
                    ELSE IF secondNode # x.lastPtr[l]
                         THEN SetNextPrev(x, secondNode, firstNode)
                         ELSE SetLast(x, l, firstNode)
        Step5(x) == SetPrev(x, firstNode, secondNode)
        Step6(x) == SetNext(x, secondNode, firstNode)
        Check2(c) == IF c.stop THEN c
                     ELSE IF c.prevPtr[secondNode] # firstNode THEN Throw(c)
                     ELSE Step6(Step5(Step4(Step3(Step2(Step1(c))))))
        Check1(c) == IF c.stop THEN c
                     ELSE IF c.nextPtr[firstNode] # secondNode THEN Throw(c)
                     ELSE Check2(Deref(c, secondNode))
    IN  Check1(Deref(m, firstNode))

\* A swap of non-successive nodes that leaves the prevPtr side as it was.
SwapPrevLinksForgotten(m, l, firstNode, secondNode) == m

\* List::SwapNonSuccessiveNodes, "Update previos pointers"
SwapPrevLinks(m, l, firstNode, secondNode) ==
    LET Edge(x, a, b) ==        \* a is the firstPtr
            SetFirst(SetPrev(CopyPrev(SetPrevNext(x, b, a), a, b), b, NULL),
                     l, b)
        Cross(x) == SetPrevNext(SetPrevNext(x, firstNode, secondNode),
                                secondNode, firstNode)
        Exchange(x) == SetPrev(CopyPrev(x, secondNode, firstNode),
                               firstNode, Prev_(x, secondNode))
    IN  IF m.stop THEN m
        ELSE IF firstNode = m.firstPtr[l] THEN Edge(m, firstNode, secondNode)
        ELSE IF secondNode = m.firstPtr[l] THEN Edge(m, secondNode, firstNode)
        ELSE Exchange(Cross(m))

\* List::SwapNonSuccessiveNodes, "Update next pointers"
SwapNextLinks(m, l, firstNode, secondNode) ==
    LET Edge(x, a, b) ==        \* a is the lastPtr
            SetLast(SetNext(SetNextPrev(CopyNext(x, a, b), b, a), b, NULL),
                    l, b)
        Cross(x) == SetNextPrev(SetNextPrev(x, firstNode, secondNode),
                                secondNode, firstNode)
        Exchange(x) == SetNext(CopyNext(x, firstNode, secondNode),
                               secondNode, Next_(x, firstNode))
    IN  IF m.stop THEN m
        ELSE IF firstNode = m.lastPtr[l] THEN Edge(m, firstNode, secondNode)
        ELSE IF secondNode = m.lastPtr[l] THEN Edge(m, secondNode, firstNode)
        ELSE Exchange(Cross(m))

\* List::SwapNonSuccessiveNodes
SwapNonSuccessiveNodes(m, l, firstNode, secondNode) ==
    LET Pick(c) ==
            IF c.stop THEN c
            ELSE IF c.nextPtr[firstNode] = secondNode
                 THEN SwapSuccessiveNodes(c, l, firstNode, secondNode)
            ELSE IF c.prevPtr[firstNode] = secondNode
                 THEN SwapSuccessiveNodes(c, l, secondNode, firstNode)
            ELSE SwapNextLinks(SwapPrevLinks(c, l, firstNode, secondNode),
                               l, firstNode, secondNode)
    IN  IF m.stop THEN m
        ELSE IF firstNode = NULL \/ secondNode = NULL THEN Throw(m)
        ELSE IF firstNode = secondNode THEN Throw(m)
        ELSE Pick(Deref(m, firstNode))

\* A swap that exchanges the values of the two nodes instead of their links.
SwapNodesByData(m, l, firstNode, secondNode) ==
    IF m.stop \/ firstNode = NULL \/ secondNode = NULL THEN m
    ELSE [m EXCEPT !.data[firstNode] = m.data[secondNode],
                   !.data[secondNode] = m.data[firstNode]]

\* List::SwapNodes
SwapNodes(m, l, firstNode, secondNode) ==
    LET Pick(c) ==
            IF c.stop THEN c
            ELSE IF c.nextPtr[firstNode] = secondNode
                 THEN SwapSuccessiveNodes(c, l, firstNode, secondNode)
            ELSE IF c.prevPtr[firstNode] = secondNode
                 THEN SwapSuccessiveNodes(c, l, secondNode, firstNode)
            ELSE SwapNonSuccessiveNodes(c, l, firstNode, secondNode)
    IN  IF m.stop THEN m
        ELSE IF firstNode = NULL \/ secondNode = NULL THEN Throw(m)
        ELSE IF firstNode = secondNode THEN m
        ELSE Pick(Deref(m, firstNode))

\* The loop of List::Sort
RECURSIVE SortLoop(_, _, _)
SortLoop(m, l, swapNode) ==
    LET Step2(c, minNode) == SortLoop(c, l, Next_(c, minNode))
        Step1(r) == Step2(Deref(SwapNodes(r.m, l, r.p, swapNode), r.p), r.p)
    IN  IF m.stop \/ swapNode = NULL THEN m
        ELSE Step1(FindMinimum(m, l, swapNode))

\* List::Sort
Sort(m, l) ==
    IF m.stop \/ isEmpty(m, l) \/ m.firstPtr[l] = m.lastPtr[l] THEN m
    ELSE SortLoop(m, l, m.firstPtr[l])

\* The value functions return the value together with the machine:
\* [m |-> machine, b |-> value].
Returns(m, b) == [m |-> m, b |-> b]

\* ListNode::isSorted
RECURSIVE NodeIsSorted(_, _)
NodeIsSorted(m, node) ==
    LET Test2(c) == IF c.stop THEN Returns(c, FALSE)
                    ELSE IF c.data[c.nextPtr[node]] < c.data[node]
                         THEN Returns(c, FALSE)
                    ELSE NodeIsSorted(c, c.nextPtr[node])
        Test1(c) == IF c.stop THEN Returns(c, FALSE)
                    ELSE IF c.nextPtr[node] = NULL THEN Returns(c, TRUE)
                    ELSE Test2(Deref(c, c.nextPtr[node]))
    IN  Test1(Deref(m, node))

\* List::isSorted
isSorted(m, l) ==
    IF m.stop THEN Returns(m, FALSE)
    ELSE IF isEmpty(m, l) THEN Returns(m, FALSE)
    ELSE NodeIsSorted(m, m.firstPtr[l])

\* List::Append(ListNode*, ListNode*)
AppendNode(m, l, baseNode, newNode) ==
    LET Step1(x) == IF x.stop THEN x
                    ELSE IF baseNode = x.lastPtr[l]
                         THEN SetLast(x, l, newNode)
                         ELSE SetNextPrev(x, baseNode, newNode)
        Step2(x) == SetPrev(x, newNode, baseNode)
        Step3(x) == CopyNext(x, newNode, baseNode)
        Step4(x) == SetNext(x, baseNode, newNode)
    IN  IF m.stop THEN m
        ELSE IF baseNode = NULL \/ newNode = NULL THEN Throw(m)
        ELSE Increase(Step4(Step3(Step2(Step1(m)))), l)

\* List::Prepend(ListNode*, ListNode*)
PrependNode(m, l, baseNode, newNode) ==
    LET Step1(x) == IF x.stop THEN x
                    ELSE IF baseNode = x.firstPtr[l]
                         THEN SetFirst(x, l, newNode)
                         ELSE SetPrevNext(x, baseNode, newNode)
        Step2(x) == SetNext(x, newNode, baseNode)
        Step3(x) == CopyPrev(x, newNode, baseNode)
        Step4(x) == SetPrev(x, baseNode, newNode)
    IN  IF m.stop THEN m
        ELSE IF baseNode = NULL \/ newNode = NULL THEN Throw(m)
        ELSE Increase(Step4(Step3(Step2(Step1(m)))), l)

\* A transfer that forgets to add the count of the other list.
AddCountForgotten(m, l, anotherList) == m

\* numberOfNodes += anotherList.GetNodeCount()
AddCount(m, l, anotherList) ==
    SetCount(m, l, m.numberOfNodes[l] + GetNodeCount(m, anotherList))

\* A transfer that leaves the other list its firstPtr, lastPtr and count.
UnlinkForgotten(m, anotherList) == m

\* anotherList.firstPtr = nullptr; .lastPtr = nullptr; .numberOfNodes = 0
Unlink(m, anotherList) ==
    SetCount(SetLast(SetFirst(m, anotherList, NULL), anotherList, NULL),
             anotherList, 0)

\* List::Concatenate
Concatenate(m, l, anotherList) ==
    LET Step1(x) == IF isEmpty(x, l)
                    THEN SetFirst(x, l, x.firstPtr[anotherList])
                    ELSE x
        Step2(x) == SetPrev(x, x.firstPtr[anotherList], x.lastPtr[l])
        Step3(x) == SetNext(x, x.lastPtr[l], x.firstPtr[anotherList])
        Step4(x) == SetLast(x, l, x.lastPtr[anotherList])
        Step5(x) == AddCount(x, l, anotherList)
    IN  IF m.stop \/ isEmpty(m, anotherList) THEN m
        ELSE Unlink(Step5(Step4(Step3(Step2(Step1(m))))), anotherList)

\* A loop of Merge that compares with >= instead of >.
RECURSIVE MergeLoopNotStrict(_, _, _, _)
MergeLoopNotStrict(m, l, anotherList, currentNodeL1) ==
    LET currentNodeL2 == m.firstPtr[anotherList]
        Test(c) ==
            IF c.stop THEN c
            ELSE IF c.data[currentNodeL1] >= c.data[currentNodeL2]
            THEN MergeLoopNotStrict(PrependNode(
                               DetachNode(c, anotherList, currentNodeL2),
                               l, currentNodeL1, currentNodeL2),
                           l, anotherList, currentNodeL1)
            ELSE MergeLoopNotStrict(c, l, anotherList,
                                    c.nextPtr[currentNodeL1])
    IN  IF m.stop \/ currentNodeL1 = NULL THEN m
        ELSE Test(Deref(Deref(m, currentNodeL1), currentNodeL2))

\* The loop of List::Merge
RECURSIVE MergeLoop(_, _, _, _)
MergeLoop(m, l, anotherList, currentNodeL1) ==
    LET currentNodeL2 == m.firstPtr[anotherList]
        Test(c) ==
            IF c.stop THEN c
            ELSE IF c.data[currentNodeL1] > c.data[currentNodeL2]
            THEN MergeLoop(PrependNode(
                               DetachNode(c, anotherList, currentNodeL2),
                               l, currentNodeL1, currentNodeL2),
                           l, anotherList, currentNodeL1)
            ELSE MergeLoop(c, l, anotherList, c.nextPtr[currentNodeL1])
    IN  IF m.stop \/ currentNodeL1 = NULL THEN m
        ELSE Test(Deref(Deref(m, currentNodeL1), currentNodeL2))

\* List::Merge
Merge(m, l, anotherList) ==
    LET \* if(isSorted() == false) Sort(); s is what isSorted() returned
        SortUnless(s, k) == IF s.m.stop \/ s.b THEN s.m ELSE Sort(s.m, k)
        Step1(x) == SortUnless(isSorted(x, l), l)
        Step2(x) == SortUnless(isSorted(x, anotherList), anotherList)
        Step3(x) == MergeLoop(x, l, anotherList, x.firstPtr[l])
        Step4(x) == IF x.stop \/ isEmpty(x, anotherList) THEN x
                    ELSE Concatenate(x, l, anotherList)
    IN  Step4(Step3(Step2(Step1(m))))

\* An Append(ListNode*, List&) that ignores baseNode and appends at the end.
AppendListAtEnd(m, l, baseNode, anotherList) ==
    Concatenate(m, l, anotherList)

\* List::Append(ListNode*, List&)
AppendList(m, l, baseNode, anotherList) ==
    LET Step1(x) == SetNextPrev(x, baseNode, x.lastPtr[anotherList])
        Step2(x) == CopyNext(x, x.lastPtr[anotherList], baseNode)
        Step3(x) == SetPrev(x, x.firstPtr[anotherList], baseNode)
        Step4(x) == SetNext(x, baseNode, x.firstPtr[anotherList])
        Step5(x) == AddCount(x, l, anotherList)
    IN  IF m.stop THEN m
        ELSE IF baseNode = NULL THEN Throw(m)
        ELSE IF baseNode = m.lastPtr[l] THEN Concatenate(m, l, anotherList)
        ELSE IF isEmpty(m, anotherList) THEN m
        ELSE IF isEmpty(m, l) THEN Swap(m, l, anotherList)
        ELSE Unlink(Step5(Step4(Step3(Step2(Step1(m))))), anotherList)

\* -------------------------------------------------------------- iterators
\* List::iterator::iterator(ListNode<T>*): [m |-> machine, p |-> node]
Iterator(m, node) ==
    IF m.stop THEN Found(m, NULL)
    ELSE IF node = NULL THEN Found(Throw(m), NULL)
    ELSE Found(m, node)

\* List::begin
begin(m, l) ==
    IF m.stop THEN Found(m, NULL)
    ELSE IF isEmpty(m, l) THEN Found(Throw(m), NULL)
    ELSE Iterator(m, m.firstPtr[l])

\* List::end
end(m, l) ==
    IF m.stop THEN Found(m, NULL)
    ELSE IF isEmpty(m, l) THEN Found(Throw(m), NULL)
    ELSE Iterator(m, m.lastPtr[l])

\* List::First (both overloads): [m |-> machine, b |-> the element referred to]
First(m, l) ==
    IF m.stop THEN Returns(m, 1)
    ELSE IF isEmpty(m, l) THEN Returns(Throw(m), 1)
    ELSE Returns(Deref(m, m.firstPtr[l]),
                 Data_(Deref(m, m.firstPtr[l]), m.firstPtr[l]))

\* List::Last (both overloads)
Last(m, l) ==
    IF m.stop THEN Returns(m, 1)
    ELSE IF isEmpty(m, l) THEN Returns(Throw(m), 1)
    ELSE Returns(Deref(m, m.lastPtr[l]),
                 Data_(Deref(m, m.lastPtr[l]), m.lastPtr[l]))

\* An operator++ that steps without testing nextPtr.
StepNextUntested(c, node) ==
    IF c.stop THEN Found(c, NULL) ELSE Found(c, c.nextPtr[node])

\* if(node->nextPtr != nullptr) node = node->nextPtr, once node is checked
StepNext(c, node) ==
    IF c.stop THEN Found(c, NULL)
    ELSE IF c.nextPtr[node] # NULL THEN Found(c, c.nextPtr[node])
    ELSE Found(c, node)

\* An operator-- that stays where it is.
StepPrevStays(c, node) ==
    IF c.stop THEN Found(c, NULL) ELSE Found(c, node)

\* if(node->prevPtr != nullptr) node = node->prevPtr, once node is checked
StepPrev(c, node) ==
    IF c.stop THEN Found(c, NULL)
    ELSE IF c.prevPtr[node] # NULL THEN Found(c, c.prevPtr[node])
    ELSE Found(c, node)

\* List::iterator::operator++ on the iterator it = [m, p]
Increment(it) == StepNext(Deref(it.m, it.p), it.p)

\* List::iterator::operator--
Decrement(it) == StepPrev(Deref(it.m, it.p), it.p)

\* it = begin(); then k times ++it
RECURSIVE Advance(_, _)
Advance(it, k) == IF k = 0 THEN it ELSE Advance(Increment(it), k - 1)

\* The iterator after the moves w, in order: TRUE is ++it, FALSE is --it
\* (prefix and postfix forms have the same body).
RECURSIVE Moves(_, _)
Moves(it, w) ==
    IF w = <<>> THEN it
    ELSE Moves(IF Head(w) THEN Increment(it) ELSE Decrement(it), Tail(w))

\* List::Splice with the iterator destination = [m, p]
Splice(destination, l, anotherList) ==
    IF destination.m.stop THEN destination.m
    ELSE IF destination.p = NULL THEN Throw(destination.m)
    ELSE AppendList(destination.m, l, destination.p, anotherList)

\* ----------------------------------------------------------- constructors
\* List::~List
RECURSIVE Destroy(_, _)
Destroy(m, l) ==
    IF m.stop \/ ~(isEmpty(m, l) = FALSE) THEN m
    ELSE Destroy(RemoveFirst(m, l), l)

\* A move constructor that leaves the source as it was.
MoveConstructKeepsSource(m, l, anotherList) ==
    [m EXCEPT !.firstPtr[l] = m.firstPtr[anotherList],
              !.lastPtr[l] = m.lastPtr[anotherList],
              !.numberOfNodes[l] = GetNodeCount(m, anotherList)]

\* List::List(List<T>&&), constructing the object l from anotherList
MoveConstruct(m, l, anotherList) ==
    Unlink([m EXCEPT !.firstPtr[l] = m.firstPtr[anotherList],
                     !.lastPtr[l] = m.lastPtr[anotherList],
                     !.numberOfNodes[l] = GetNodeCount(m, anotherList)],
           anotherList)

\* The member initialisers firstPtr(nullptr), lastPtr(nullptr),
\* numberOfNodes(0) of the constructors of the object l
DefaultConstruct(m, l) ==
    IF m.stop THEN m
    ELSE [m EXCEPT !.firstPtr[l] = NULL, !.lastPtr[l] = NULL,
                   !.numberOfNodes[l] = 0]

\* A range constructor that stops in front of the element at end.
RangeConstructHalfOpen(beginIt, endIt, l) ==
    LET RECURSIVE Loop(_, _)
        Loop(x, tempIt) ==
            IF x.stop \/ tempIt = endIt.p THEN x
            ELSE Loop(EmplaceAppend(Deref(x, tempIt), l,
                                    Data_(Deref(x, tempIt), tempIt)),
                      Increment(Found(x, tempIt)).p)
    IN  IF beginIt.m.stop THEN beginIt.m
        ELSE IF endIt.m.stop THEN endIt.m
        ELSE Loop(DefaultConstruct(beginIt.m, l), beginIt.p)

\* List::List(AnotherIteratorType begin, AnotherIteratorType end) with two
\* iterators of a List, beginIt = [m, p] and endIt = [m, p], constructing
\* the object l
RangeConstruct(beginIt, endIt, l) ==
    LET RECURSIVE Loop(_, _)
        \* if(tempIt != end) tempIt++; else break;
        Test(x, tempIt) ==
            IF x.stop \/ ~(tempIt # endIt.p) THEN x
            ELSE Loop(x, Increment(Found(x, tempIt)).p)
        \* EmplaceAppend(*tempIt)
        Loop(x, tempIt) ==
            IF x.stop THEN x
            ELSE Test(EmplaceAppend(Deref(x, tempIt), l,
                                    Data_(Deref(x, tempIt), tempIt)),
                      tempIt)
    IN  IF beginIt.m.stop THEN beginIt.m
        ELSE IF endIt.m.stop THEN endIt.m
        ELSE Loop(DefaultConstruct(beginIt.m, l), beginIt.p)

\* A copy constructor that shares the nodes of the source.
CopyConstructShallow(m, l, anotherList) ==
    IF m.stop THEN m
    ELSE [m EXCEPT !.firstPtr[l] = m.firstPtr[anotherList],
                   !.lastPtr[l] = m.lastPtr[anotherList],
                   !.numberOfNodes[l] = GetNodeCount(m, anotherList)]

\* List::List(List<T>&), constructing the object l from anotherList
CopyConstruct(m, l, anotherList) ==
    LET RECURSIVE Loop(_, _)
        \* Append(*it); it++;
        Loop(x, it) ==
            IF x.stop
               \/ ~(x.numberOfNodes[l] # GetNodeCount(x, anotherList))
            THEN x
            ELSE Loop(AppendData(Deref(x, it), l, Data_(Deref(x, it), it)),
                      Increment(Found(Deref(x, it), it)).p)
    IN  IF m.stop THEN m
        ELSE IF isEmpty(m, anotherList) THEN DefaultConstruct(m, l)
        ELSE Loop(begin(DefaultConstruct(m, l), anotherList).m,
                  begin(DefaultConstruct(m, l), anotherList).p)

\* List::List(std::initializer_list<T>), constructing the object l
InitializerConstruct(m, l, initializerList) ==
    LET RECURSIVE Loop(_, _)
        Loop(x, i) ==
            IF x.stop \/ i > Len(initializerList) THEN x
            ELSE Loop(AppendData(x, l, initializerList[i]), i + 1)
    IN  Loop(DefaultConstruct(m, l), 1)

\* ------------------------------------------------------ address renaming
\* Two states that differ in the addresses of the nodes only are the same
\* state of the program: the addresses are renamed to the order in which
\* the lists reach them, and the nodes no pointer leads to are cleared.
InSeq(x, s) == \E i \in 1..Len(s) : s[i] = x

Canon(m) ==
    LET RECURSIVE WalkNext(_, _)
        WalkNext(p, acc) ==
            IF p = NULL \/ InSeq(p, acc) THEN acc
            ELSE WalkNext(m.nextPtr[p], Append(acc, p))
        RECURSIVE WalkPrev(_, _)
        WalkPrev(p, acc) ==
            IF p = NULL \/ InSeq(p, acc) THEN acc
            ELSE WalkPrev(m.prevPtr[p], Append(acc, p))
        RECURSIVE Rest(_, _)
        Rest(S, acc) ==
            IF S = {} THEN acc ELSE Rest(S \ {Min(S)}, Append(acc, Min(S)))
        Fill(o) == Rest(Addr \ {o[i] : i \in 1..Len(o)}, o)
        \* The addresses in the order the lists reach them, the others
        \* after them.
        Order ==
            Fill(WalkPrev(m.lastPtr[2],
                 WalkPrev(m.lastPtr[1],
                 WalkNext(m.firstPtr[2],
                 WalkNext(m.firstPtr[1], <<>>)))))
        Rename(ord, keep) ==
            LET to(a) == CHOOSE i \in 1..Len(ord) : ord[i] = a
                ren(p) == IF p = NULL THEN NULL ELSE to(p)
            IN  [m EXCEPT
                   !.data    = [i \in Addr |->
                                   IF ord[i] \in keep
                                   THEN m.data[ord[i]] ELSE 1],
                   !.prevPtr = [i \in Addr |->
                                   IF ord[i] \in keep
                                   THEN ren(m.prevPtr[ord[i]]) ELSE NULL],
                   !.nextPtr = [i \in Addr |->
                                   IF ord[i] \in keep
                                   THEN ren(m.nextPtr[ord[i]]) ELSE NULL],
                   !.live     = {to(a) : a \in m.live},
                   !.firstPtr = [l \in ListId |-> ren(m.firstPtr[l])],
                   !.lastPtr  = [l \in ListId |-> ren(m.lastPtr[l])]]
    IN  Rename(Order, m.live \cup Referenced(m))

\* ---------------------------------------------------------------- actions
\* The state a call leaves: n is the machine when the call has ended.
Leaves(n, name) ==
    /\ data' = n.data
    /\ prevPtr' = n.prevPtr
    /\ nextPtr' = n.nextPtr
    /\ live' = n.live
    /\ firstPtr' = n.firstPtr
    /\ lastPtr' = n.lastPtr
    /\ numberOfNodes' = n.numberOfNodes
    /\ fault' = n.fault
    /\ crashed' = (n.stop /\ ~n.thrown)
    /\ err' = n.thrown
    /\ op' = name
    /\ UNCHANGED <<size, container, heap, built, thrown>>

\* The program runs until it meets undefined behaviour; the run is followed
\* up to the call the observer marks.
Running == fault = "none" /\ op = "none"

\* The end of a call of a member function by the program.  A call that
\* meets an access to a deleted node, or a missing return, has two outcomes:
\* r is the machine the function leaves when the program goes on, t the
\* machine it leaves when the program is stopped there.  A call that needs
\* more nodes than the bound of the model allows is not one of the run.  The
\* observer marks the call, or lets it pass.
Ends(r, t, name) ==
    LET Observed(n) ==
            \E marked \in BOOLEAN : Leaves(n, IF marked THEN name ELSE "none")
        Outcome(e) == ~e.oom /\ Observed(Canon(e))
    IN  \E trap \in (IF r.fault \in {"dangling", "noreturn"}
                     THEN BOOLEAN ELSE {FALSE}) :
           Outcome(IF trap THEN t ELSE r)

\* ------------------------------------------------- the lists as sequences
\* The state of the program as a machine.
Cur == Machine(FALSE)

\* The members of the lists and of their nodes in the machine m: the nodes
\* that exist, their links and values, and the head, tail and count of each
\* list.
Members(m) ==
    <<m.live, m.data, m.prevPtr, m.nextPtr,
      m.firstPtr, m.lastPtr, m.numberOfNodes>>

\* The nodes a traversal by nextPtr meets from the head of list l on
\* (List::PrintAll), as far as they are live.
Nodes(m, l) ==
    LET RECURSIVE Forward(_, _)
        Forward(p, acc) ==
            IF p = NULL \/ p \notin m.live \/ InSeq(p, acc) THEN acc
            ELSE Forward(m.nextPtr[p], Append(acc, p))
    IN  Forward(m.firstPtr[l], <<>>)

\* The same by prevPtr from the tail (the traversal of List::FindReversed).
NodesReversed(m, l) ==
    LET RECURSIVE Backward(_, _)
        Backward(p, acc) ==
            IF p = NULL \/ p \notin m.live \/ InSeq(p, acc) THEN acc
            ELSE Backward(m.prevPtr[p], Append(acc, p))
    IN  Backward(m.lastPtr[l], <<>>)

\* The element sequence of list l.
Contents(m, l) ==
    LET ns == Nodes(m, l) IN [i \in 1..Len(ns) |-> m.data[ns[i]]]

DoAppend(l, d) ==
    /\ Running
    /\ Ends(AppendData(Machine(FALSE), l, d),
            AppendData(Machine(TRUE), l, d), "Append")

DoPrepend(l, d) ==
    /\ Running
    /\ Ends(PrependData(Machine(FALSE), l, d),
            PrependData(Machine(TRUE), l, d), "Prepend")

DoEmplaceAppend(l, d) ==
    /\ Running
    /\ Ends(EmplaceAppend(Machine(FALSE), l, d),
            EmplaceAppend(Machine(TRUE), l, d), "EmplaceAppend")

DoEmplacePrepend(l, d) ==
    /\ Running
    /\ Ends(EmplacePrepend(Machine(FALSE), l, d),
            EmplacePrepend(Machine(TRUE), l, d), "EmplacePrepend")

DoRemoveFirst(l) ==
    /\ Running
    /\ Ends(RemoveFirst(Machine(FALSE), l),
            RemoveFirst(Machine(TRUE), l), "RemoveFirst")

DoRemoveLast(l) ==
    /\ Running
    /\ Ends(RemoveLast(Machine(FALSE), l),
            RemoveLast(Machine(TRUE), l), "RemoveLast")

DoRemoveIfPred(l, P) ==
    /\ Running
    /\ Ends(RemoveIfPred(Machine(FALSE), l, P),
            RemoveIfPred(Machine(TRUE), l, P), "RemoveIfPred")

DoRemoveIf(l, d) ==
    /\ Running
    /\ Ends(RemoveIfData(Machine(FALSE), l, d),
            RemoveIfData(Machine(TRUE), l, d), "RemoveIf")

DoRemoveFirstOf(l, d) ==
    /\ Running
    /\ Ends(RemoveFirstOf(Machine(FALSE), l, d),
            RemoveFirstOf(Machine(TRUE), l, d), "RemoveFirstOf")

DoRemoveLastOf(l, d) ==
    /\ Running
    /\ Ends(RemoveLastOf(Machine(FALSE), l, d),
            RemoveLastOf(Machine(TRUE), l, d), "RemoveLastOf")

DoRemoveIfNot(l, d) ==
    /\ Running
    /\ Ends(RemoveIfNot(Machine(FALSE), l, d),
            RemoveIfNot(Machine(TRUE), l, d), "RemoveIfNot")

DoRemoveFirstNotOf(l, d) ==
    /\ Running
    /\ Ends(RemoveFirstNotOf(Machine(FALSE), l, d),
            RemoveFirstNotOf(Machine(TRUE), l, d), "RemoveFirstNotOf")

DoRemoveLastNotOf(l, d) ==
    /\ Running
    /\ Ends(RemoveLastNotOf(Machine(FALSE), l, d),
            RemoveLastNotOf(Machine(TRUE), l, d), "RemoveLastNotOf")

DoEraseAll(l) ==
    /\ Running
    /\ Ends(EraseAll(Machine(FALSE), l),
            EraseAll(Machine(TRUE), l), "EraseAll")

DoReplaceAllWith(l, o, n) ==
    /\ Running
    /\ Ends(ReplaceAllWith(Machine(FALSE), l, o, n),
            ReplaceAllWith(Machine(TRUE), l, o, n), "ReplaceAllWith")

DoReplaceFirstWith(l, o, n) ==
    /\ Running
    /\ Ends(ReplaceFirstWith(Machine(FALSE), l, o, n),
            ReplaceFirstWith(Machine(TRUE), l, o, n), "ReplaceFirstWith")

DoReplaceLastWith(l, o, n) ==
    /\ Running
    /\ Ends(ReplaceLastWith(Machine(FALSE), l, o, n),
            ReplaceLastWith(Machine(TRUE), l, o, n), "ReplaceLastWith")

DoSwap(l, a) ==
    /\ Running
    /\ Ends(Swap(Machine(FALSE), l, a),
            Swap(Machine(TRUE), l, a), "Swap")

DoResize(l, n, d) ==
    /\ Running
    /\ Ends(Resize(Machine(FALSE), l, n, d),
            Resize(Machine(TRUE), l, n, d), "Resize")

DoUnique(l) ==
    /\ Running
    /\ Ends(Unique(Machine(FALSE), l),
            Unique(Machine(TRUE), l), "Unique")

DoSort(l) ==
    /\ Running
    /\ Ends(Sort(Machine(FALSE), l),
            Sort(Machine(TRUE), l), "Sort")

DoMerge(l, a) ==
    /\ Running
    /\ Ends(Merge(Machine(FALSE), l, a),
            Merge(Machine(TRUE), l, a), "Merge")

DoConcatenate(l, a) ==
    /\ Running
    /\ Ends(Concatenate(Machine(FALSE), l, a),
            Concatenate(Machine(TRUE), l, a), "Concatenate")

\* l.Splice(it, a) with it = l.begin() advanced k times
DoSplice(l, k, a) ==
    /\ Running
    /\ Ends(Splice(Advance(begin(Machine(FALSE), l), k), l, a),
            Splice(Advance(begin(Machine(TRUE), l), k), l, a), "Splice")

\* A new List object is move-constructed from a in the place of the empty
\* list l (destroying an empty list does nothing).
DoMoveConstruct(l, a) ==
    /\ Running
    /\ numberOfNodes[l] = 0
    /\ Ends(MoveConstruct(Machine(FALSE), l, a),
            MoveConstruct(Machine(TRUE), l, a), "MoveConstruct")

\* A new List object is constructed in the place of the empty list l from
\* the range of a that begins at a.begin() moved i times and ends at
\* a.begin() moved j times (i <= j: the begin iterator is placed prior to
\* the end iterator).
DoRangeConstruct(l, a, i, j) ==
    /\ Running
    /\ numberOfNodes[l] = 0
    /\ Ends(RangeConstruct(Advance(begin(Machine(FALSE), a), i),
                           Advance(begin(Machine(FALSE), a), j), l),
            RangeConstruct(Advance(begin(Machine(TRUE), a), i),
                           Advance(begin(Machine(TRUE), a), j), l),
            "RangeConstruct")

DoCopyConstruct(l, a) ==
    /\ Running
    /\ numberOfNodes[l] = 0
    /\ Ends(CopyConstruct(Machine(FALSE), l, a),
            CopyConstruct(Machine(TRUE), l, a), "CopyConstruct")

\* The initializer list holds the elements of the list a.
DoInitializerConstruct(l, a) ==
    /\ Running
    /\ numberOfNodes[l] = 0
    /\ Ends(InitializerConstruct(Machine(FALSE), l,
                                 Contents(Cur, a)),
            InitializerConstruct(Machine(TRUE), l,
                                 Contents(Cur, a)),
            "InitializerConstruct")

\* The List object l is destroyed and a new, default-constructed one takes
\* its place.
DoDestroy(l) ==
    /\ Running
    /\ Ends(DefaultConstruct(Destroy(Machine(FALSE), l), l),
            DefaultConstruct(Destroy(Machine(TRUE), l), l), "Destroy")

DoFirst(l) ==
    /\ Running
    /\ Ends(First(Machine(FALSE), l).m, First(Machine(TRUE), l).m, "First")

DoLast(l) ==
    /\ Running
    /\ Ends(Last(Machine(FALSE), l).m, Last(Machine(TRUE), l).m, "Last")

DoBegin(l) ==
    /\ Running
    /\ Ends(begin(Machine(FALSE), l).m, begin(Machine(TRUE), l).m, "begin")

DoEnd(l) ==
    /\ Running
    /\ Ends(end(Machine(FALSE), l).m, end(Machine(TRUE), l).m, "end")

\* List::List(): both lists start default-constructed, the heap is empty.
Init ==
    /\ data = [a \in Addr |-> 1]
    /\ prevPtr = [a \in Addr |-> NULL]
    /\ nextPtr = [a \in Addr |-> NULL]
    /\ live = {}
    /\ firstPtr = [l \in ListId |-> NULL]
    /\ lastPtr = [l \in ListId |-> NULL]
    /\ numberOfNodes = [l \in ListId |-> 0]
    /\ fault = "none"
    /\ crashed = FALSE
    /\ err = FALSE
    /\ op = "none"
    /\ size = [a \in ArrayId |-> 0]
    /\ container = [a \in ArrayId |-> NULL]
    /\ heap = [b \in {} |-> <<>>]
    /\ built = [a \in ArrayId |-> FALSE]
    /\ thrown = [type |-> "none", what |-> "", index |-> 0, size |-> 0]

Next ==
    \/ \E l \in ListId, d \in Value : DoAppend(l, d)
    \/ \E l \in ListId, d \in Value : DoPrepend(l, d)
    \/ \E l \in ListId, d \in Value : DoEmplaceAppend(l, d)
    \/ \E l \in ListId, d \in Value : DoEmplacePrepend(l, d)
    \/ \E l \in ListId : DoRemoveFirst(l)
    \/ \E l \in ListId : DoRemoveLast(l)
    \/ \E l \in ListId, P \in SUBSET Value : DoRemoveIfPred(l, P)
    \/ \E l \in ListId, d \in Value : DoRemoveIf(l, d)
    \/ \E l \in ListId, d \in Value : DoRemoveFirstOf(l, d)
    \/ \E l \in ListId, d \in Value : DoRemoveLastOf(l, d)
    \/ \E l \in ListId, d \in Value : DoRemoveIfNot(l, d)
    \/ \E l \in ListId, d \in Value : DoRemoveFirstNotOf(l, d)
    \/ \E l \in ListId, d \in Value : DoRemoveLastNotOf(l, d)
    \/ \E l \in ListId : DoEraseAll(l)
    \/ \E l \in ListId, o, n \in Value : DoReplaceAllWith(l, o, n)
    \/ \E l \in ListId, o, n \in Value : DoReplaceFirstWith(l, o, n)
    \/ \E l \in ListId, o, n \in Value : DoReplaceLastWith(l, o, n)
    \/ \E l \in ListId, a \in ListId : DoSwap(l, a)
    \/ \E l \in ListId, n \in 0..MaxNodes, d \in Value : DoResize(l, n, d)
    \/ \E l \in ListId : DoUnique(l)
    \/ \E l \in ListId : DoSort(l)
    \/ \E l \in ListId : \E a \in ListId \ {l} : DoMerge(l, a)
    \/ \E l \in ListId : \E a \in ListId \ {l} : DoConcatenate(l, a)
    \/ \E l \in ListId, k \in 0..(MaxNodes - 1) : \E a \in ListId \ {l} :
          DoSplice(l, k, a)
    \/ \E l \in ListId : \E a \in ListId \ {l} : DoMoveConstruct(l, a)
    \/ \E l \in ListId, i \in 0..(MaxNodes - 1) :
          \E a \in ListId \ {l}, j \in i..(MaxNodes - 1) :
             DoRangeConstruct(l, a, i, j)
    \/ \E l \in ListId : \E a \in ListId \ {l} : DoCopyConstruct(l, a)
    \/ \E l \in ListId : \E a \in ListId \ {l} : DoInitializerConstruct(l, a)
    \/ \E l \in ListId : DoDestroy(l)
    \/ \E l \in ListId : DoFirst(l)
    \/ \E l \in ListId : DoLast(l)
    \/ \E l \in ListId : DoBegin(l)
    \/ \E l \in ListId : DoEnd(l)

Spec == Init /\ [][Next]_vars

\* The shape of the state of the programs Spec and ArraySpec.
TypeOK ==
    /\ data \in [Addr -> Value]
    /\ prevPtr \in [Addr -> Ptr]
    /\ nextPtr \in [Addr -> Ptr]
    /\ live \subseteq Addr
    /\ firstPtr \in [ListId -> Ptr]
    /\ lastPtr \in [ListId -> Ptr]
    /\ numberOfNodes \in [ListId -> 0..MaxNodes]
    /\ fault \in {"none", "null", "dangling", "noreturn", "overrun"}
    /\ crashed \in BOOLEAN
    /\ crashed => fault # "none"
    /\ err \in BOOLEAN
    /\ size \in [ArrayId -> 0..MaxSize]
    /\ container \in [ArrayId -> (1..NumArrays) \cup {NULL}]
    /\ DOMAIN heap \subseteq 1..NumArrays
    /\ \A b \in DOMAIN heap :
          heap[b] \in Seq(Value) /\ Len(heap[b]) <= MaxSize
    /\ built \in [ArrayId -> BOOLEAN]

\* The program has not stopped: its state can be observed.
Observable == ~crashed

\* ----------------------------------------------------------------- claims
\* C1: the node count of a list is 0 if and only if its firstPtr and its
\* lastPtr are both null.
C1_CountZeroIffNull ==
    Observable =>
        \A l \in ListId :
            (numberOfNodes[l] = 0)
                <=> (firstPtr[l] = NULL /\ lastPtr[l] = NULL)

\* C2: the stored count of a list equals the number of live nodes a forward
\* traversal from its head reaches, and the number a backward traversal
\* from its tail reaches.
C2_CountIsTraversal ==
    Observable =>
        \A l \in ListId :
            /\ numberOfNodes[l] = Len(Nodes(Cur, l))
            /\ numberOfNodes[l] = Len(NodesReversed(Cur, l))

\* A RemoveIf has returned and has left two nodes in list 1, while a node
\* removed before is gone.
C2_Witness ==
    /\ op = "RemoveIf"
    /\ fault = "none"
    /\ numberOfNodes[1] = 2
    /\ Len(Nodes(Cur, 1)) = 2
    /\ Len(NodesReversed(Cur, 1)) = 2
    /\ numberOfNodes[2] = 0
    /\ lastPtr[2] # NULL

\* C3: the links of the nodes are mutually consistent, and the head of a
\* non-empty list has a null prevPtr, its tail a null nextPtr.
C3_LinksConsistent ==
    Observable =>
        /\ \A a \in live :
              /\ nextPtr[a] # NULL => prevPtr[nextPtr[a]] = a
              /\ prevPtr[a] # NULL => nextPtr[prevPtr[a]] = a
        /\ \A l \in ListId :
              numberOfNodes[l] # 0 =>
                  /\ prevPtr[firstPtr[l]] = NULL
                  /\ nextPtr[lastPtr[l]] = NULL

\* C4: no call dereferences a null pointer or a deleted node.
C4_NoInvalidAccess == fault \notin {"null", "dangling"}

\* C5: for two distinct lists A and B, A.Merge(B) completes, leaves in A the
\* elements of both lists in ascending order, and leaves B empty with
\* count 0.
C5_MergeAscending ==
    Running =>
        \A l \in ListId : \A a \in ListId \ {l} :
            LET r == Merge(Cur, l, a)
                old == Contents(Cur, l) \o Contents(Cur, a)
                new == Contents(r, l)
            IN  /\ r.fault = "none" /\ ~r.stop
                /\ Len(new) = Len(old)
                /\ \A v \in Value :
                      Cardinality({i \in 1..Len(new) : new[i] = v})
                        = Cardinality({i \in 1..Len(old) : old[i] = v})
                /\ \A i \in 1..(Len(new) - 1) : new[i] <= new[i + 1]
                /\ r.numberOfNodes[l] = Len(new)
                /\ r.numberOfNodes[a] = 0
                /\ Contents(r, a) = <<>>

\* C6: for every list, the empty and the single-element list included,
\* isSorted() is true after Sort(), and Sort() keeps the multiset of the
\* values.
C6_SortSorts ==
    Running =>
        \A l \in ListId :
            LET r == Sort(Cur, l)
                s == isSorted(r, l)
                old == Contents(Cur, l)
                new == Contents(r, l)
            IN  /\ s.m.fault = "none" /\ ~s.m.stop
                /\ s.b
                /\ \A v \in Value :
                      Cardinality({i \in 1..Len(new) : new[i] = v})
                        = Cardinality({i \in 1..Len(old) : old[i] = v})

\* C7: for a non-empty list A and a distinct list B of n nodes,
\* A.Concatenate(B) leaves A with the sum of the counts and the elements of
\* A followed by those of B, the old tail of A linked to the old head of B
\* and back, and B empty with count 0; no node is created or destroyed, and
\* no node but these two is changed.
C7_Concatenate ==
    Running =>
        \A l \in ListId : \A a \in ListId \ {l} :
            numberOfNodes[l] > 0 =>
                LET r == Concatenate(Cur, l, a)
                    n == numberOfNodes[a]
                    tail == lastPtr[l]
                    head == firstPtr[a]
                IN  /\ r.fault = "none" /\ ~r.stop
                    /\ r.numberOfNodes[l] = numberOfNodes[l] + n
                    /\ Len(Nodes(r, l)) = numberOfNodes[l] + n
                    /\ Contents(r, l) = Contents(Cur, l) \o Contents(Cur, a)
                    /\ r.firstPtr[l] = firstPtr[l]
                    /\ n > 0 => /\ r.nextPtr[tail] = head
                                /\ r.prevPtr[head] = tail
                                /\ r.lastPtr[l] = lastPtr[a]
                                /\ r.firstPtr[a] = NULL
                                /\ r.lastPtr[a] = NULL
                    /\ r.numberOfNodes[a] = 0
                    /\ Contents(r, a) = <<>>
                    /\ r.live = live
                    /\ r.data = data
                    /\ \A p \in Addr \ {tail} : r.nextPtr[p] = nextPtr[p]
                    /\ \A p \in Addr \ {head} : r.prevPtr[p] = prevPtr[p]

\* A list of two nodes is concatenated to another list of two nodes.
C7_Witness ==
    /\ Running
    /\ numberOfNodes[1] = 2
    /\ numberOfNodes[2] = 2
    /\ Contents(Cur, 1) = <<2, 1>>
    /\ Contents(Cur, 2) = <<1, 2>>
    /\ Contents(Concatenate(Cur, 1, 2), 1) = <<2, 1, 1, 2>>
    /\ Concatenate(Cur, 1, 2).numberOfNodes = <<4, 0>>

\* C8: for an iterator on the node X of list A and a distinct list B,
\* A.Splice(it, B) moves the nodes of B, in their order, to just after X,
\* leaves B empty with count 0 and A with the sum of the counts, whether X
\* is the head, an inner node or the tail of A.  X is the node k steps
\* after the head.
C8_Splice ==
    Running =>
        \A l \in ListId : \A a \in ListId \ {l} :
            \A k \in 0..(MaxNodes - 1) :
                k < numberOfNodes[l] =>
                    LET r == Splice(Advance(begin(Cur, l), k), l, a)
                        A == Contents(Cur, l)
                        B == Contents(Cur, a)
                    IN  /\ r.fault = "none" /\ ~r.stop
                        /\ Contents(r, l)
                             = SubSeq(A, 1, k + 1) \o B
                                 \o SubSeq(A, k + 2, Len(A))
                        /\ r.numberOfNodes[l]
                             = numberOfNodes[l] + numberOfNodes[a]
                        /\ Len(NodesReversed(r, l)) = r.numberOfNodes[l]
                        /\ r.numberOfNodes[a] = 0
                        /\ Contents(r, a) = <<>>
                        /\ r.live = live

\* Two nodes are spliced after the head of a list of two nodes.
C8_Witness ==
    /\ Running
    /\ Contents(Cur, 1) = <<1, 2>>
    /\ Contents(Cur, 2) = <<2, 1>>
    /\ Contents(Splice(Advance(begin(Cur, 1), 0), 1, 2), 1) = <<1, 2, 1, 2>>
    /\ Splice(Advance(begin(Cur, 1), 0), 1, 2).numberOfNodes = <<4, 0>>

\* C9: Unique() leaves the first occurrence of each value, in the order of
\* the first occurrences, and removes every later duplicate.
C9_UniqueFirstOccurrences ==
    Running =>
        \A l \in ListId :
            LET r == Unique(Cur, l)
                old == Contents(Cur, l)
                new == Contents(r, l)
                keep == {i \in 1..Len(old) :
                            \A j \in 1..(i - 1) : old[j] # old[i]}
            IN  /\ r.fault = "none" /\ ~r.stop
                /\ Len(new) = Cardinality(keep)
                /\ r.numberOfNodes[l] = Cardinality(keep)
                /\ \A i \in keep :
                      new[Cardinality({j \in keep : j <= i})] = old[i]

\* C10: no node is reachable from the head or tail of two lists.
C10_NoSharedNode ==
    Observable =>
        \A l \in ListId : \A a \in ListId \ {l} :
            Closure(Cur, {firstPtr[l], lastPtr[l]} \ {NULL})
              \cap Closure(Cur, {firstPtr[a], lastPtr[a]} \ {NULL}) = {}

\* A Splice has returned and list 1 holds all four nodes.
C10_Witness ==
    /\ op = "Splice"
    /\ fault = "none"
    /\ numberOfNodes = <<4, 0>>
    /\ Cardinality(Closure(Cur, {firstPtr[1], lastPtr[1]})) = 4
    /\ firstPtr[2] = NULL
    /\ lastPtr[2] = NULL

\* C11: isSorted() returns true if and only if every element of the list is
\* less than or equal to its successor; so it returns true for the empty
\* list and for the list of one element.
C11_isSortedIffAscending ==
    Running =>
        \A l \in ListId :
            LET s == isSorted(Cur, l)
                c == Contents(Cur, l)
            IN  /\ s.m.fault = "none" /\ ~s.m.stop
                /\ s.b <=> \A i \in 1..(Len(c) - 1) : c[i] <= c[i + 1]

\* C12, as claimed: in a Merge that completes, a node of B that has the value
\* of a node of A stands before that node of A in the resulting sequence.
C12_MergeEqualFromOtherFirst ==
    Running =>
        \A l \in ListId : \A a \in ListId \ {l} :
            LET r == Merge(Cur, l, a)
                A == Nodes(Cur, l)
                B == Nodes(Cur, a)
                new == Nodes(r, l)
            IN  (r.fault = "none" /\ ~r.stop) =>
                    \A i \in 1..Len(A) : \A j \in 1..Len(B) :
                        data[A[i]] = data[B[j]] =>
                            \E x, y \in 1..Len(new) :
                                /\ new[x] = B[j]
                                /\ new[y] = A[i]
                                /\ x < y

\* C12, as the code has it: the loop of Merge moves a node of B in front of
\* a node of A only when the node of A is strictly greater, so a node of B
\* that has the value of a node of A is inserted after that node of A (in
\* every outcome of the call, and it is in A when the call completes).
C12_MergeEqualFromOtherLast ==
    Running =>
        \A l \in ListId : \A a \in ListId \ {l} : \A trap \in BOOLEAN :
            LET r == Merge(Machine(trap), l, a)
                A == Nodes(Cur, l)
                B == Nodes(Cur, a)
                new == Nodes(r, l)
            IN  \A i \in 1..Len(A) : \A j \in 1..Len(B) :
                    data[A[i]] = data[B[j]] =>
                        /\ (r.fault = "none" /\ ~r.stop) => InSeq(B[j], new)
                        /\ InSeq(A[i], new)
                        /\ \A x, y \in 1..Len(new) :
                              (new[x] = B[j] /\ new[y] = A[i]) => y < x

\* [1, 2] is merged with [1, 2]: the nodes of the other list follow the
\* equal nodes of the receiver.
C12_Witness ==
    /\ Running
    /\ Contents(Cur, 1) = <<1, 2>>
    /\ Contents(Cur, 2) = <<1, 2>>
    /\ Merge(Cur, 1, 2).fault = "none"
    /\ Nodes(Merge(Cur, 1, 2), 1)
         = <<Nodes(Cur, 1)[1], Nodes(Cur, 2)[1],
             Nodes(Cur, 1)[2], Nodes(Cur, 2)[2]>>

\* C13: First(), Last(), begin() and end() throw exactly when the count of
\* the list is 0, however the list became empty; the call that throws leaves
\* head, tail, count and all nodes as they were; on a list that is not empty
\* they do not throw, and none of them meets an invalid access.
C13_EmptyFailsExactly ==
    Running =>
        \A l \in ListId :
            \A r \in {First(Cur, l).m, Last(Cur, l).m,
                      begin(Cur, l).m, end(Cur, l).m} :
                /\ r.fault = "none"
                /\ r.thrown <=> numberOfNodes[l] = 0
                /\ r.stop <=> r.thrown
                /\ Members(r) = Members(Cur)

\* List 1 has become empty by removals (its head still holds the address of
\* the deleted node) and First() throws; list 2 is not empty and begin()
\* returns.
C13_Witness ==
    /\ Running
    /\ numberOfNodes[1] = 0
    /\ firstPtr[1] # NULL
    /\ First(Cur, 1).m.thrown
    /\ end(Cur, 1).m.thrown
    /\ numberOfNodes[2] > 0
    /\ ~begin(Cur, 2).m.thrown
    /\ ~Last(Cur, 2).m.thrown
    /\ Last(Cur, 2).b = data[lastPtr[2]]

\* C14: a mutating operation of List that throws, public or private, has
\* changed nothing: head, tail and count of every list and every node and
\* link are after the failed call as they were before it.
C14_ErrorBeforeChange ==
    Running =>
        LET Whole(r) == r.thrown => Members(r) = Members(Cur)
            Node == live \cup {NULL}
        IN  \A l \in ListId :
              /\ \A d \in Value :
                    /\ Whole(AppendData(Cur, l, d))
                    /\ Whole(PrependData(Cur, l, d))
                    /\ Whole(RemoveIfData(Cur, l, d))
                    /\ Whole(RemoveFirstOf(Cur, l, d))
                    /\ Whole(RemoveLastOf(Cur, l, d))
                    /\ Whole(RemoveIfNot(Cur, l, d))
                    /\ Whole(RemoveFirstNotOf(Cur, l, d))
                    /\ Whole(RemoveLastNotOf(Cur, l, d))
                    /\ \A n \in Value :
                          /\ Whole(ReplaceAllWith(Cur, l, d, n))
                          /\ Whole(ReplaceFirstWith(Cur, l, d, n))
                          /\ Whole(ReplaceLastWith(Cur, l, d, n))
                    /\ \A n \in 0..MaxNodes : Whole(Resize(Cur, l, n, d))
              /\ \A P \in SUBSET Value : Whole(RemoveIfPred(Cur, l, P))
              /\ Whole(RemoveFirst(Cur, l))
              /\ Whole(RemoveLast(Cur, l))
              /\ Whole(EraseAll(Cur, l))
              /\ Whole(Unique(Cur, l))
              /\ Whole(Sort(Cur, l))
              /\ \A a \in ListId :
                    /\ Whole(Swap(Cur, l, a))
                    /\ a # l =>
                          /\ Whole(Merge(Cur, l, a))
                          /\ Whole(Concatenate(Cur, l, a))
                          /\ \A k \in 0..(MaxNodes - 1) :
                                Whole(Splice(Advance(begin(Cur, l), k), l, a))
                          /\ \A p \in Node : Whole(AppendList(Cur, l, p, a))
              /\ \A p \in Node :
                    /\ Whole(DetachNode(Cur, l, p))
                    /\ Whole(RemoveNode(Cur, l, p))
                    /\ Whole(FindMinimum(Cur, l, p).m)
                    /\ \A q \in Node :
                          /\ Whole(SwapNodes(Cur, l, p, q))
                          /\ Whole(SwapSuccessiveNodes(Cur, l, p, q))
                          /\ Whole(SwapNonSuccessiveNodes(Cur, l, p, q))
                          /\ Whole(AppendNode(Cur, l, p, q))
                          /\ Whole(PrependNode(Cur, l, p, q))

\* C15: an iterator never holds a null node: the constructor throws for a
\* null node and keeps any other node; an iterator obtained from begin() or
\* end() and moved by any sequence of ++ and -- holds a node of the list,
\* never null; so Splice with such an iterator does not throw for a null
\* destination.
C15_IteratorNeverNull ==
    Running =>
        /\ Iterator(Cur, NULL).m.thrown
        /\ \A p \in live :
              /\ ~Iterator(Cur, p).m.thrown
              /\ Iterator(Cur, p).p = p
        /\ \A l \in ListId :
              \A from \in {begin(Cur, l), end(Cur, l)} :
                  \A n \in 0..MaxNodes : \A w \in [1..n -> BOOLEAN] :
                      LET it == Moves(from, w)
                      IN  /\ it.m.stop <=> numberOfNodes[l] = 0
                          /\ it.m.fault = "none"
                          /\ ~it.m.stop =>
                                /\ it.p # NULL
                                /\ InSeq(it.p, Nodes(Cur, l))
                                /\ \A a \in ListId \ {l} :
                                      ~Splice(it, l, a).thrown

\* List 1 has three nodes; begin() moved by ++ three times stands on the
\* last node (not on null), and Splice with it moves list 2 behind it.
C15_Witness ==
    /\ Running
    /\ numberOfNodes[1] = 3
    /\ numberOfNodes[2] = 1
    /\ Moves(begin(Cur, 1), <<TRUE, TRUE, TRUE>>).p = lastPtr[1]
    /\ Moves(end(Cur, 1), <<FALSE, FALSE, FALSE, TRUE>>).p = nextPtr[firstPtr[1]]
    /\ Len(Nodes(Splice(Moves(begin(Cur, 1), <<TRUE, TRUE, TRUE>>), 1, 2), 1))
          = 4

\* C16: on a list that is not empty begin() stands on the first element and
\* end() on the last element (not past it); ++ on the last element and -- on
\* the first element leave the iterator where it is, and elsewhere they move
\* it to the next and to the previous element.
C16_BeginEndPositions ==
    Running =>
        \A l \in ListId :
            numberOfNodes[l] > 0 =>
                LET s == Nodes(Cur, l)
                    At(i) == Iterator(Cur, s[i])
                IN  /\ s # <<>>
                    /\ begin(Cur, l).p = s[1]
                    /\ end(Cur, l).p = s[Len(s)]
                    /\ begin(Cur, l).m.fault = "none"
                    /\ end(Cur, l).m.fault = "none"
                    /\ \A i \in 1..Len(s) :
                          /\ Increment(At(i)).m.fault = "none"
                          /\ Decrement(At(i)).m.fault = "none"
                          /\ Increment(At(i)).p
                                = s[IF i = Len(s) THEN i ELSE i + 1]
                          /\ Decrement(At(i)).p = s[IF i = 1 THEN i ELSE i - 1]

\* A list of three elements 1, 2, 1: end() stands on the third node, ++
\* leaves it there, -- takes it to the second.
C16_Witness ==
    /\ Running
    /\ Contents(Cur, 1) = <<1, 2, 1>>
    /\ end(Cur, 1).p = lastPtr[1]
    /\ lastPtr[1] # firstPtr[1]
    /\ Increment(end(Cur, 1)).p = lastPtr[1]
    /\ Decrement(begin(Cur, 1)).p = firstPtr[1]
    /\ Decrement(end(Cur, 1)).p = prevPtr[lastPtr[1]]
    /\ data[Decrement(end(Cur, 1)).p] = 2

\* C17: Append(v) and EmplaceAppend(v) on any list, empty or not, leave the
\* old sequence of nodes followed by one new node of value v; Prepend(v) and
\* EmplacePrepend(v) leave the new node of value v followed by the old
\* sequence; the count grows by exactly 1 and no node that existed changes
\* its value.
C17_InsertAtEnds ==
    Running =>
        \A l \in ListId : \A v \in Value :
            LET old == Nodes(Cur, l)
                Grown(r) ==
                    /\ r.fault = "none" /\ ~r.stop
                    /\ r.numberOfNodes[l] = numberOfNodes[l] + 1
                    /\ r.numberOfNodes[l] = Len(old) + 1
                    /\ \A p \in live : p \in r.live /\ r.data[p] = data[p]
                    /\ Len(NodesReversed(r, l)) = Len(old) + 1
                    /\ \A i \in 1..(Len(old) + 1) :
                          NodesReversed(r, l)[i]
                             = Nodes(r, l)[Len(old) + 2 - i]
                Back(r) ==
                    r.oom \/
                       /\ Grown(r)
                       /\ Nodes(r, l) = Append(old, r.lastPtr[l])
                       /\ r.lastPtr[l] \notin live
                       /\ Contents(r, l) = Append(Contents(Cur, l), v)
                Front(r) ==
                    r.oom \/
                       /\ Grown(r)
                       /\ Nodes(r, l) = <<r.firstPtr[l]>> \o old
                       /\ r.firstPtr[l] \notin live
                       /\ Contents(r, l) = <<v>> \o Contents(Cur, l)
            IN  /\ Back(AppendData(Cur, l, v))
                /\ Back(EmplaceAppend(Cur, l, v))
                /\ Front(PrependData(Cur, l, v))
                /\ Front(EmplacePrepend(Cur, l, v))

\* 2 is appended to the list 1, 1 and prepended to a list that removals
\* have emptied (its tail still holds the address of a deleted node).
C17_Witness ==
    /\ Running
    /\ Contents(Cur, 1) = <<1, 1>>
    /\ Contents(AppendData(Cur, 1, 2), 1) = <<1, 1, 2>>
    /\ Contents(EmplacePrepend(Cur, 1, 2), 1) = <<2, 1, 1>>
    /\ numberOfNodes[2] = 0
    /\ lastPtr[2] # NULL
    /\ Contents(PrependData(Cur, 2, 2), 2) = <<2>>
    /\ Contents(EmplaceAppend(Cur, 2, 2), 2) = <<2>>

\* C18: RemoveFirst() / RemoveLast() on a list that is not empty delete
\* exactly the head / tail node and leave the other nodes in their order,
\* with their values, and the count less by 1; on an empty list they throw
\* nothing and leave head, tail, count and every node as they were.
C18_RemoveAtEnds ==
    Running =>
        \A l \in ListId :
            LET old == Nodes(Cur, l)
                Kept(r, gone) ==
                    /\ r.numberOfNodes[l] = numberOfNodes[l] - 1
                    /\ r.live = live \ {gone}
                    /\ gone \in live
                    /\ \A p \in r.live : r.data[p] = data[p]
                    /\ \A a \in ListId \ {l} :
                          /\ Nodes(r, a) = Nodes(Cur, a)
                          /\ r.numberOfNodes[a] = numberOfNodes[a]
                Done(r) == r.fault = "none" /\ ~r.stop /\ ~r.thrown
                first == RemoveFirst(Cur, l)
                last == RemoveLast(Cur, l)
            IN  /\ Done(first)
                /\ Done(last)
                /\ numberOfNodes[l] = 0 =>
                      /\ Members(first) = Members(Cur)
                      /\ Members(last) = Members(Cur)
                /\ numberOfNodes[l] > 0 =>
                      /\ old # <<>>
                      /\ Kept(first, old[1])
                      /\ Nodes(first, l) = Tail(old)
                      /\ Kept(last, old[Len(old)])
                      /\ Nodes(last, l) = SubSeq(old, 1, Len(old) - 1)

\* From the list 1, 2, 1 RemoveFirst leaves 2, 1 and RemoveLast 1, 2; on
\* list 2, emptied before, both do nothing.
C18_Witness ==
    /\ Running
    /\ Contents(Cur, 1) = <<1, 2, 1>>
    /\ Contents(RemoveFirst(Cur, 1), 1) = <<2, 1>>
    /\ Contents(RemoveLast(Cur, 1), 1) = <<1, 2>>
    /\ numberOfNodes[2] = 0
    /\ lastPtr[2] # NULL
    /\ RemoveLast(Cur, 2).lastPtr[2] = lastPtr[2]

\* C19: RemoveIf(predicate) deletes exactly the nodes whose value satisfies
\* the predicate, RemoveIf(v) exactly the nodes of value v, RemoveIfNot(v)
\* exactly the nodes of another value; the nodes that survive keep their
\* order and values, the count drops by the number of nodes deleted, and no
\* call meets an invalid access, also when the head, the tail or every node
\* is deleted.
C19_RemoveIfExactly ==
    Running =>
        \A l \in ListId : \A P \in SUBSET Value :
            LET old == Nodes(Cur, l)
                Goes(p) == data[p] \in P
                Stays(p) == data[p] \notin P
                gone == {old[i] : i \in {j \in 1..Len(old) : Goes(old[j])}}
                Exactly(r) ==
                    /\ r.fault = "none" /\ ~r.stop
                    /\ Nodes(r, l) = SelectSeq(old, Stays)
                    /\ r.live = live \ gone
                    /\ \A p \in r.live : r.data[p] = data[p]
                    /\ r.numberOfNodes[l] = numberOfNodes[l] - Cardinality(gone)
                    /\ r.numberOfNodes[l] = Len(Nodes(r, l))
            IN  /\ Exactly(RemoveIfPred(Cur, l, P))
                /\ \A v \in Value :
                      /\ P = {v} => Exactly(RemoveIfData(Cur, l, v))
                      /\ P = Value \ {v} => Exactly(RemoveIfNot(Cur, l, v))

\* C20: RemoveFirstOf(v) deletes exactly one node, the earliest of value v,
\* and RemoveLastOf(v) the latest one; RemoveFirstNotOf(v) / RemoveLastNotOf(v)
\* delete exactly the earliest / latest node of another value; when no node
\* matches, the sequence and the count are unchanged; no call meets an
\* invalid access.
C20_RemoveOneExactly ==
    Running =>
        \A l \in ListId : \A v \in Value :
            LET old == Nodes(Cur, l)
                Is == {i \in 1..Len(old) : data[old[i]] = v}
                Not == {i \in 1..Len(old) : data[old[i]] # v}
                Lowest(S) == CHOOSE i \in S : \A j \in S : i <= j
                Highest(S) == CHOOSE i \in S : \A j \in S : j <= i
                Without(i) == [j \in 1..(Len(old) - 1) |->
                                  IF j < i THEN old[j] ELSE old[j + 1]]
                Done(r) ==
                    /\ r.fault = "none" /\ ~r.stop
                    /\ \A p \in r.live : r.data[p] = data[p]
                    /\ r.numberOfNodes[l] = Len(Nodes(r, l))
                Same(r) ==
                    /\ Nodes(r, l) = old
                    /\ r.live = live
                    /\ r.numberOfNodes[l] = numberOfNodes[l]
                Less(r, i) ==
                    /\ Nodes(r, l) = Without(i)
                    /\ r.live = live \ {old[i]}
                    /\ r.numberOfNodes[l] = numberOfNodes[l] - 1
                One(r, S, i) ==
                    Done(r) /\ IF S = {} THEN Same(r) ELSE Less(r, i)
            IN  /\ One(RemoveFirstOf(Cur, l, v), Is, Lowest(Is))
                /\ One(RemoveLastOf(Cur, l, v), Is, Highest(Is))
                /\ One(RemoveFirstNotOf(Cur, l, v), Not, Lowest(Not))
                /\ One(RemoveLastNotOf(Cur, l, v), Not, Highest(Not))

\* C21: ReplaceAllWith / ReplaceFirstWith / ReplaceLastWith(oldValue,
\* newValue) change no head, tail, count or link and create or delete no
\* node; they give newValue to all / the first / the last node of the list
\* whose value is oldValue and leave the value of every other node; when
\* no node has oldValue nothing changes; no call meets an invalid access.
C21_ReplaceFrame ==
    Running =>
        \A l \in ListId : \A o \in Value : \A n \in Value :
            LET old == Nodes(Cur, l)
                Is == {i \in 1..Len(old) : data[old[i]] = o}
                Lowest(S) == CHOOSE i \in S : \A j \in S : i <= j
                Highest(S) == CHOOSE i \in S : \A j \in S : j <= i
                Written(r, S) ==
                    /\ r.fault = "none" /\ ~r.stop
                    /\ r.live = live
                    /\ r.prevPtr = prevPtr
                    /\ r.nextPtr = nextPtr
                    /\ r.firstPtr = firstPtr
                    /\ r.lastPtr = lastPtr
                    /\ r.numberOfNodes = numberOfNodes
                    /\ \A p \in live :
                          r.data[p] = IF \E i \in S : old[i] = p THEN n
                                      ELSE data[p]
            IN  /\ Written(ReplaceAllWith(Cur, l, o, n), Is)
                /\ Written(ReplaceFirstWith(Cur, l, o, n),
                           IF Is = {} THEN {} ELSE {Lowest(Is)})
                /\ Written(ReplaceLastWith(Cur, l, o, n),
                           IF Is = {} THEN {} ELSE {Highest(Is)})

\* C22: for two distinct lists A and B, A.Swap(B) exchanges the head, tail
\* and count of the two lists, so that A holds the former sequence of B and
\* B that of A, and touches no node; A.Swap(A) leaves A as it was; a second
\* A.Swap(B) restores both lists.
C22_SwapExchanges ==
    Running =>
        \A l \in ListId :
            /\ Members(Swap(Cur, l, l)) = Members(Cur)
            /\ \A a \in ListId \ {l} :
                  LET r == Swap(Cur, l, a)
                  IN  /\ r.fault = "none" /\ ~r.stop
                      /\ r.firstPtr[l] = firstPtr[a]
                      /\ r.lastPtr[l] = lastPtr[a]
                      /\ r.numberOfNodes[l] = numberOfNodes[a]
                      /\ r.firstPtr[a] = firstPtr[l]
                      /\ r.lastPtr[a] = lastPtr[l]
                      /\ r.numberOfNodes[a] = numberOfNodes[l]
                      /\ Nodes(r, l) = Nodes(Cur, a)
                      /\ Nodes(r, a) = Nodes(Cur, l)
                      /\ r.live = live
                      /\ r.data = data
                      /\ r.prevPtr = prevPtr
                      /\ r.nextPtr = nextPtr
                      /\ Members(Swap(r, l, a)) = Members(Cur)

\* C23: after Resize(n, v) the count is exactly n; for n below the old
\* count the list is the first n old nodes (the others are deleted from the
\* tail), for n above it the old nodes followed by n - old count new nodes
\* of value v; Resize to the current size changes nothing.
C23_ResizeExact ==
    Running =>
        \A l \in ListId : \A n \in 0..MaxNodes : \A v \in Value :
            LET old == Nodes(Cur, l)
                r == Resize(Cur, l, n, v)
                new == Nodes(r, l)
            IN  r.oom \/
                   /\ r.fault = "none" /\ ~r.stop
                   /\ r.numberOfNodes[l] = n
                   /\ Len(new) = n
                   /\ \A i \in 1..n :
                         IF i <= Len(old)
                         THEN new[i] = old[i] /\ r.data[new[i]] = data[old[i]]
                         ELSE new[i] \notin live /\ r.data[new[i]] = v
                   /\ r.live = (live \ {old[i] : i \in (n + 1)..Len(old)})
                                  \cup {new[i] : i \in 1..n}
                   /\ n = numberOfNodes[l] => Members(r) = Members(Cur)

\* The list 1, 2, 1 is cut to 1, 2 by Resize(2, 2) and an emptied list
\* (head on a deleted node) is filled to 2, 2 by Resize(2, 2).
C23_Witness ==
    /\ Running
    /\ Contents(Cur, 1) = <<1, 2, 1>>
    /\ Contents(Resize(Cur, 1, 2, 2), 1) = <<1, 2>>
    /\ ~Resize(Cur, 1, 4, 2).oom
    /\ Contents(Resize(Cur, 1, 4, 2), 1) = <<1, 2, 1, 2>>
    /\ numberOfNodes[2] = 0
    /\ firstPtr[2] # NULL
    /\ Contents(Resize(Cur, 2, 1, 2), 2) = <<2>>

\* C24: Sort() reorders by relinking only: it creates and deletes no node
\* and changes the value of no node, so every node of the list before the
\* call is a node of the list after it, with the same value; the count, the
\* other list and the links of the nodes outside the list stay as they
\* were.
C24_SortRelinksOnly ==
    Running =>
        \A l \in ListId :
            LET r == Sort(Cur, l)
                old == Nodes(Cur, l)
                new == Nodes(r, l)
            IN  /\ r.fault = "none" /\ ~r.stop
                /\ r.live = live
                /\ r.data = data
                /\ r.numberOfNodes = numberOfNodes
                /\ Len(new) = Len(old)
                /\ {new[i] : i \in 1..Len(new)} = {old[i] : i \in 1..Len(old)}
                /\ \A i \in 1..Len(new) :
                      NodesReversed(r, l)[Len(new) + 1 - i] = new[i]
                /\ \A a \in ListId \ {l} :
                      /\ r.firstPtr[a] = firstPtr[a]
                      /\ r.lastPtr[a] = lastPtr[a]
                /\ \A p \in Addr :
                      ~InSeq(p, old) =>
                          /\ r.prevPtr[p] = prevPtr[p]
                          /\ r.nextPtr[p] = nextPtr[p]

\* The list 2, 1, 2 is sorted to 1, 2, 2: the node that was second is the
\* head, and the three nodes hold the values they held.
C24_Witness ==
    /\ Running
    /\ Contents(Cur, 1) = <<2, 1, 2>>
    /\ Contents(Sort(Cur, 1), 1) = <<1, 2, 2>>
    /\ Sort(Cur, 1).firstPtr[1] = Nodes(Cur, 1)[2]
    /\ Sort(Cur, 1).data = data

\* C25: Sort() is not stable: whenever a list holds three nodes 2a, 2b, 1 in
\* this order, Sort() leaves them as 1, 2b, 2a: the two nodes of equal value
\* have changed their relative order.
C25_SortNotStable ==
    Running =>
        \A l \in ListId :
            Contents(Cur, l) = <<2, 2, 1>> =>
                LET old == Nodes(Cur, l)
                    r == Sort(Cur, l)
                IN  /\ r.fault = "none" /\ ~r.stop
                    /\ Nodes(r, l) = <<old[3], old[2], old[1]>>
                    /\ Contents(r, l) = <<1, 2, 2>>

\* List 1 is 2a, 2b, 1 and after Sort() 2b stands before 2a.
C25_Witness ==
    /\ Running
    /\ Contents(Cur, 1) = <<2, 2, 1>>
    /\ Nodes(Sort(Cur, 1), 1)[2] = Nodes(Cur, 1)[2]
    /\ Nodes(Sort(Cur, 1), 1)[3] = Nodes(Cur, 1)[1]
    /\ data[Nodes(Cur, 1)[1]] = data[Nodes(Cur, 1)[2]]

\* C26, as claimed: L1 == L2 is true exactly when both lists have the same
\* head node, so two distinct lists that hold element-wise equal sequences
\* compare unequal; != is the negation of ==.
C26_EqualityIsIdentity ==
    Running =>
        \A l \in ListId : \A a \in ListId :
            /\ ListEq(Cur, l, a) <=> firstPtr[l] = firstPtr[a]
            /\ ListNe(Cur, l, a) <=> ~ListEq(Cur, l, a)
            /\ (l # a /\ Contents(Cur, l) = Contents(Cur, a)) =>
                  ~ListEq(Cur, l, a)

\* C26, as the code has it: L1 == L2 is true exactly when both lists have
\* the same head pointer; a list equals itself, two distinct lists compare
\* equal exactly when both heads are null (two new lists), so two distinct
\* lists that hold element-wise equal sequences which are not empty compare
\* unequal; != is the negation of ==.
C26_EqualityIsSameHead ==
    Running =>
        \A l \in ListId : \A a \in ListId :
            /\ ListEq(Cur, l, a) <=> firstPtr[l] = firstPtr[a]
            /\ ListNe(Cur, l, a) <=> ~ListEq(Cur, l, a)
            /\ ListEq(Cur, l, l)
            /\ l # a =>
                  /\ ListEq(Cur, l, a) <=>
                        (firstPtr[l] = NULL /\ firstPtr[a] = NULL)
                  /\ ListEq(Cur, l, a) => Contents(Cur, l) = Contents(Cur, a)
                  /\ (Contents(Cur, l) = Contents(Cur, a)
                        /\ Contents(Cur, l) # <<>>) => ListNe(Cur, l, a)

\* The two lists hold 1, 2 each and compare unequal.
C26_Witness ==
    /\ Running
    /\ Contents(Cur, 1) = <<1, 2>>
    /\ Contents(Cur, 2) = <<1, 2>>
    /\ ~ListEq(Cur, 1, 2)
    /\ ListNe(Cur, 2, 1)
    /\ ListEq(Cur, 2, 2)

C28_RangeHalfOpen ==
    Running =>
        \A l \in ListId : \A a \in ListId \ {l} :
            (numberOfNodes[l] = 0 /\ numberOfNodes[a] > 0) =>
                \A i \in 0..(MaxNodes - 1) : \A j \in i..(MaxNodes - 1) :
                    LET src == Nodes(Cur, a)
                        b == Advance(begin(Cur, a), i)
                        e == Advance(begin(Cur, a), j)
                        from == CHOOSE k \in 1..Len(src) : src[k] = b.p
                        to == CHOOSE k \in 1..Len(src) : src[k] = e.p
                        r == RangeConstruct(b, e, l)
                    IN  r.oom \/
                           /\ r.fault = "none" /\ ~r.stop
                           /\ r.numberOfNodes[l] = to - from
                           /\ Contents(r, l)
                                = SubSeq(Contents(Cur, a), from, to - 1)

\* C29: copy-constructing a list from a source list gives a list with a
\* copy of each element of the source in the same order and the same count,
\* held in new nodes (no node is shared with the source), and leaves the
\* source and its nodes unchanged; the copy of an empty source is empty.
C29_CopyConstruct ==
    Running =>
        \A l \in ListId : \A a \in ListId \ {l} :
            numberOfNodes[l] = 0 =>
                LET r == CopyConstruct(Cur, l, a)
                    new == Nodes(r, l)
                IN  r.oom \/
                       /\ r.fault = "none" /\ ~r.stop
                       /\ Contents(r, l) = Contents(Cur, a)
                       /\ r.numberOfNodes[l] = numberOfNodes[a]
                       /\ Len(new) = numberOfNodes[a]
                       /\ \A i \in 1..Len(new) :
                             new[i] \notin live /\ ~InSeq(new[i], Nodes(r, a))
                       /\ Nodes(r, a) = Nodes(Cur, a)
                       /\ r.firstPtr[a] = firstPtr[a]
                       /\ r.lastPtr[a] = lastPtr[a]
                       /\ r.numberOfNodes[a] = numberOfNodes[a]
                       /\ \A p \in live :
                             /\ p \in r.live
                             /\ r.data[p] = data[p]
                             /\ r.prevPtr[p] = prevPtr[p]
                             /\ r.nextPtr[p] = nextPtr[p]
                       /\ numberOfNodes[a] = 0 =>
                             r.firstPtr[l] = NULL /\ r.lastPtr[l] = NULL

\* List 2 holds 2, 1 and is copied into two new nodes; an emptied list 2
\* (its head on a deleted node) is copied to an empty list.
C29_Witness ==
    /\ Running
    /\ numberOfNodes[1] = 0
    /\ Contents(Cur, 2) = <<2, 1>>
    /\ Contents(CopyConstruct(Cur, 1, 2), 1) = <<2, 1>>
    /\ CopyConstruct(Cur, 1, 2).firstPtr[1] \notin live
    /\ Cardinality(CopyConstruct(Cur, 1, 2).live) = 4

\* C30: move-constructing a list gives the new list the head, tail and
\* count the source had and leaves the source with head and tail null and
\* count 0, touching no node; so destroying both lists afterwards, in either
\* order, deletes each node of the source exactly once and nothing else.
C30_MoveConstruct ==
    Running =>
        \A l \in ListId : \A a \in ListId \ {l} :
            numberOfNodes[l] = 0 =>
                LET r == MoveConstruct(Cur, l, a)
                    nodes == {Nodes(Cur, a)[i] : i \in 1..numberOfNodes[a]}
                    Gone(d) ==
                        /\ d.fault = "none" /\ ~d.stop
                        /\ d.live = live \ nodes
                        /\ d.numberOfNodes[l] = 0
                        /\ d.numberOfNodes[a] = 0
                IN  /\ r.fault = "none" /\ ~r.stop
                    /\ r.firstPtr[l] = firstPtr[a]
                    /\ r.lastPtr[l] = lastPtr[a]
                    /\ r.numberOfNodes[l] = numberOfNodes[a]
                    /\ r.firstPtr[a] = NULL
                    /\ r.lastPtr[a] = NULL
                    /\ r.numberOfNodes[a] = 0
                    /\ r.live = live
                    /\ r.data = data
                    /\ r.prevPtr = prevPtr
                    /\ r.nextPtr = nextPtr
                    /\ Nodes(r, l) = Nodes(Cur, a)
                    /\ Len(Nodes(Cur, a)) = numberOfNodes[a]
                    /\ Gone(Destroy(Destroy(r, l), a))
                    /\ Gone(Destroy(Destroy(r, a), l))

\* List 2 holds 1, 2 and is moved into list 1; destroying both deletes the
\* two nodes.
C30_Witness ==
    /\ Running
    /\ numberOfNodes[1] = 0
    /\ Contents(Cur, 2) = <<1, 2>>
    /\ Contents(MoveConstruct(Cur, 1, 2), 1) = <<1, 2>>
    /\ MoveConstruct(Cur, 1, 2).firstPtr[2] = NULL
    /\ Destroy(Destroy(MoveConstruct(Cur, 1, 2), 1), 2).live = {}
    /\ Destroy(Destroy(MoveConstruct(Cur, 1, 2), 1), 2).fault = "none"

\* C39: for an empty list A (constructed empty or emptied by removals) and a
\* distinct non-empty list B, A.Concatenate(B) completes without touching a
\* null or deleted node and leaves A with the former head, tail, count and
\* elements of B, the head of A with a null prevPtr, and B empty.
C39_ConcatenateIntoEmpty ==
    Running =>
        \A l \in ListId : \A a \in ListId \ {l} :
            (numberOfNodes[l] = 0 /\ numberOfNodes[a] > 0) =>
                LET r == Concatenate(Cur, l, a)
                IN  /\ r.fault = "none" /\ ~r.stop
                    /\ r.firstPtr[l] = firstPtr[a]
                    /\ r.lastPtr[l] = lastPtr[a]
                    /\ r.numberOfNodes[l] = numberOfNodes[a]
                    /\ Contents(r, l) = Contents(Cur, a)
                    /\ r.prevPtr[r.firstPtr[l]] = NULL
                    /\ r.firstPtr[a] = NULL
                    /\ r.lastPtr[a] = NULL
                    /\ r.numberOfNodes[a] = 0

\* ------------------------------------------ SwapNodes on lists of any shape
\* SwapNodes is private: Sort is its only caller, and Sort passes it the
\* node it is filling and the minimum behind it.  To settle what SwapNodes
\* does with any two nodes it is run on its own: list 1 starts as a
\* well-formed list of 2..SwapLen nodes, and each step swaps two of its
\* nodes; the addresses are not renamed, so that every order of the nodes is
\* a state of its own.
SwapInit ==
    \E n \in 2..SwapLen :
        /\ data = [a \in Addr |-> IF a <= n THEN ((a - 1) % MaxVal) + 1 ELSE 1]
        /\ prevPtr = [a \in Addr |-> IF 1 < a /\ a <= n THEN a - 1 ELSE NULL]
        /\ nextPtr = [a \in Addr |-> IF a < n THEN a + 1 ELSE NULL]
        /\ live = 1..n
        /\ firstPtr = [l \in ListId |-> IF l = 1 THEN 1 ELSE NULL]
        /\ lastPtr = [l \in ListId |-> IF l = 1 THEN n ELSE NULL]
        /\ numberOfNodes = [l \in ListId |-> IF l = 1 THEN n ELSE 0]
        /\ fault = "none"
        /\ crashed = FALSE
        /\ err = FALSE
        /\ op = "none"
        /\ size = [a \in ArrayId |-> 0]
        /\ container = [a \in ArrayId |-> NULL]
        /\ heap = [b \in {} |-> <<>>]
        /\ built = [a \in ArrayId |-> FALSE]
        /\ thrown = [type |-> "none", what |-> "", index |-> 0, size |-> 0]

DoSwapNodes(l, firstNode, secondNode) ==
    /\ Running
    /\ Leaves(SwapNodes(Cur, l, firstNode, secondNode), "none")

SwapNext ==
    \E firstNode \in live \cup {NULL}, secondNode \in live \cup {NULL} :
        DoSwapNodes(1, firstNode, secondNode)

SwapSpec == SwapInit /\ [][SwapNext]_vars

\* C38: for any two distinct nodes a and b of a list, SwapNodes(a, b)
\* completes and exchanges the positions of a and b in the sequence: every
\* other node keeps its position, head and tail are the first and the last
\* node of the new sequence, the head has a null prevPtr and the tail a null
\* nextPtr, the walk by prevPtr from the tail is the reverse of the walk by
\* nextPtr from the head, and no node, value or count changes;
\* SwapNodes(a, a) changes nothing.
C38_SwapNodesExchanges ==
    Running =>
        LET old == Nodes(Cur, 1)
            n == Len(old)
        IN  \A i \in 1..n :
               /\ Members(SwapNodes(Cur, 1, old[i], old[i])) = Members(Cur)
               /\ \A j \in (1..n) \ {i} :
                     LET r == SwapNodes(Cur, 1, old[i], old[j])
                         new == Nodes(r, 1)
                     IN  /\ r.fault = "none" /\ ~r.stop
                         /\ new = [k \in 1..n |-> IF k = i THEN old[j]
                                                  ELSE IF k = j THEN old[i]
                                                  ELSE old[k]]
                         /\ r.firstPtr[1] = new[1]
                         /\ r.lastPtr[1] = new[n]
                         /\ r.prevPtr[new[1]] = NULL
                         /\ r.nextPtr[new[n]] = NULL
                         /\ \A k \in 1..n :
                               NodesReversed(r, 1)[n + 1 - k] = new[k]
                         /\ Len(NodesReversed(r, 1)) = n
                         /\ r.live = live
                         /\ r.data = data
                         /\ r.numberOfNodes = numberOfNodes
                         /\ r.firstPtr[2] = firstPtr[2]
                         /\ r.lastPtr[2] = lastPtr[2]

\* In a list of five nodes that swaps have already reordered, the second
\* and the fourth node (interior, not adjacent) are swapped.
C38_Witness ==
    /\ Running
    /\ numberOfNodes[1] = 5
    /\ Nodes(Cur, 1) = <<3, 1, 5, 2, 4>>
    /\ Nodes(SwapNodes(Cur, 1, 1, 2), 1) = <<3, 2, 5, 1, 4>>

\* ================================================================ Array<T>
\* The Array objects work on a machine of their own: the members of the
\* objects, the buffers, the exception thrown and the undefined behaviour
\* met.  An object that is not built has no members.

\* The state of the program as the machine of the Array functions.  stop:
\* the running call has ended early (exception, crash).  trap: an access
\* outside a buffer, or to a deleted one, stops the program; otherwise the
\* program goes on, and the access reads or writes memory that is not part
\* of the model.
Arrays(trap) ==
    [size |-> size, container |-> container, heap |-> heap, built |-> built,
     thrown |-> [type |-> "none", what |-> "", index |-> 0, size |-> 0],
     fault |-> fault, stop |-> FALSE, trap |-> trap]

\* throw std::logic_error(what) / throw std::range_error(what), the message
\* of the latter built from the size and the index
ThrowError(s, type, what, index, n) ==
    IF s.stop THEN s
    ELSE [s EXCEPT !.thrown = [type |-> type, what |-> what,
                               index |-> index, size |-> n],
                   !.stop = TRUE]

\* Array::getSize
getSize(s, a) == IF s.container[a] = NULL THEN 0 ELSE s.size[a]

\* container = new T[n] of Array a: the elements of the new buffer are not
\* initialised, junk is what they happen to hold.
NewBuffer(s, a, n, junk) ==
    LET b == Min((1..NumArrays) \ DOMAIN s.heap)
    IN  IF s.stop THEN s
        ELSE [s EXCEPT !.container[a] = b,
                       !.heap = [x \in DOMAIN s.heap \cup {b} |->
                                    IF x = b THEN SubSeq(junk, 1, n)
                                    ELSE s.heap[x]]]

\* delete [] container of Array a; the pointer keeps its value.
DeleteBuffer(s, a) ==
    IF s.stop \/ s.container[a] = NULL THEN s
    ELSE IF s.container[a] \notin DOMAIN s.heap
         THEN [s EXCEPT !.fault = Flag(s, "dangling"), !.stop = s.trap]
    ELSE [s EXCEPT !.heap = [x \in DOMAIN s.heap \ {s.container[a]} |->
                                s.heap[x]]]

\* An access that accepts index = size.
SubscriptInclusive(s, a, index) ==
    IF s.stop \/ index <= s.size[a] THEN s
    ELSE [s EXCEPT !.thrown = [type |-> "range_error",
                               what |-> "Out-of-Range Exception Occured",
                               index |-> index, size |-> s.size[a]],
                   !.stop = TRUE]

\* Array::operator[] (const and non-const have the same body): the machine
\* after the checks; when it has not stopped, container[index] is returned.
Subscript(s, a, index) ==
    IF s.stop THEN s
    ELSE IF index < s.size[a]
         THEN IF s.container[a] = NULL
              THEN [s EXCEPT !.fault = Flag(s, "null"), !.stop = TRUE]
              ELSE IF s.container[a] \notin DOMAIN s.heap
              THEN [s EXCEPT !.fault = Flag(s, "dangling"), !.stop = s.trap]
              ELSE IF index >= Len(s.heap[s.container[a]])
              THEN [s EXCEPT !.fault = Flag(s, "overrun"), !.stop = s.trap]
              ELSE s
    ELSE IF s.container[a] = NULL
         THEN ThrowError(s, "logic_error",
                  "Container deleted or has not been allocated properly!",
                  0, 0)
    ELSE ThrowError(s, "range_error", "Out-of-Range Exception Occured",
                    index, s.size[a])

\* The value of container[index] of Array a (1 when there is none).
Elem(s, a, index) ==
    IF \/ s.container[a] \notin DOMAIN s.heap
       \/ index >= Len(s.heap[s.container[a]])
    THEN 1
    ELSE s.heap[s.container[a]][index + 1]

\* container[index] = v of Array a (a store outside the buffer changes no
\* buffer of the model)
Store(c, a, index, v) ==
    IF c.stop THEN c
    ELSE IF \/ c.container[a] \notin DOMAIN c.heap
            \/ index >= Len(c.heap[c.container[a]])
         THEN c
    ELSE [c EXCEPT !.heap[c.container[a]][index + 1] = v]

\* Array::Array(const size_t), constructing the object a
ArrayOfSize(s, a, arraySize, junk) ==
    LET Init1(x) == [x EXCEPT !.size[a] = arraySize, !.container[a] = NULL]
        Done(x) == IF x.stop THEN x ELSE [x EXCEPT !.built[a] = TRUE]
    IN  IF s.stop THEN s
        ELSE IF arraySize = 0
             THEN ThrowError(Init1(s), "logic_error",
                             "Array size cannot be zero!", 0, 0)
        ELSE Done(NewBuffer(Init1(s), a, arraySize, junk))

\* A copy that takes the pointer of the source instead of its elements.
ArrayCopyShallow(s, a, copyArr, junk) ==
    IF s.stop THEN s
    ELSE [s EXCEPT !.size[a] = s.size[copyArr],
                   !.container[a] = s.container[copyArr],
                   !.built[a] = TRUE]

\* Array::Array(const Array<T>&), constructing the object a
ArrayCopy(s, a, copyArr, junk) ==
    LET Init1(x) == [x EXCEPT !.size[a] = getSize(x, copyArr),
                              !.container[a] = NULL]
        RECURSIVE Loop(_, _)
        Loop(x, index) ==
            IF x.stop \/ ~(index < x.size[a]) THEN x
            \* (*this)[index] = copyArr[index];
            ELSE Loop(Store(Subscript(Subscript(x, copyArr, index), a, index),
                            a, index, Elem(x, copyArr, index)),
                      index + 1)
        Done(x) == IF x.stop THEN x ELSE [x EXCEPT !.built[a] = TRUE]
    IN  IF s.stop THEN s
        ELSE IF getSize(s, copyArr) = 0
             THEN ThrowError(Init1(s), "logic_error",
                             "Array size cannot be zero!", 0, 0)
        ELSE Done(Loop(NewBuffer(Init1(s), a, getSize(s, copyArr), junk), 0))

\* A move that does not look at the size of the source.
ArrayMoveUnchecked(s, a, moveArr) ==
    IF s.stop THEN s
    ELSE [s EXCEPT !.size[a] = getSize(s, moveArr),
                   !.container[a] = s.container[moveArr],
                   !.container[moveArr] = NULL,
                   !.built[a] = TRUE]

\* Array::Array(Array<T>&&), constructing the object a
ArrayMove(s, a, moveArr) ==
    LET Init1(x) == [x EXCEPT !.size[a] = getSize(x, moveArr),
                              !.container[a] = x.container[moveArr]]
    IN  IF s.stop THEN s
        ELSE IF getSize(s, moveArr) = 0
             THEN ThrowError(Init1(s), "logic_error",
                             "Array size cannot be zero!", 0, 0)
        ELSE [Init1(s) EXCEPT !.container[moveArr] = NULL, !.built[a] = TRUE]

\* Array::Array(const T* const, const size_t), constructing the object a;
\* source.ptr is the pointer, source.at the elements it points to.
ArrayFromSource(s, a, source, n, junk) ==
    LET Init1(x) == [x EXCEPT !.size[a] = n, !.container[a] = NULL]
        RECURSIVE Loop(_, _)
        Loop(x, index) ==
            IF x.stop \/ ~(index < n) THEN x
            ELSE Loop(Store(Subscript(x, a, index), a, index,
                            source.at[index + 1]),
                      index + 1)
        Done(x) == IF x.stop THEN x ELSE [x EXCEPT !.built[a] = TRUE]
    IN  IF s.stop THEN s
        ELSE IF n = 0
             THEN ThrowError(Init1(s), "logic_error",
                             "Array size cannot be zero!", 0, 0)
        ELSE IF source.ptr = NULL
             THEN ThrowError(Init1(s), "logic_error", "Invalid source!", 0, 0)
        ELSE Done(Loop(NewBuffer(Init1(s), a, n, junk), 0))

\* Array::Array(std::initializer_list<T>), constructing the object a
ArrayFromList(s, a, initializerList, junk) ==
    LET Init1(x) == [x EXCEPT !.size[a] = Len(initializerList),
                              !.container[a] = NULL]
        RECURSIVE Loop(_, _)
        Loop(x, index) ==
            IF x.stop \/ index >= Len(initializerList) THEN x
            ELSE Loop(Store(x, a, index, initializerList[index + 1]),
                      index + 1)
        Done(x) == IF x.stop THEN x ELSE [x EXCEPT !.built[a] = TRUE]
    IN  IF s.stop THEN s
        ELSE IF Len(initializerList) = 0
             THEN ThrowError(Init1(s), "logic_error",
                             "Array size cannot be zero!", 0, 0)
        ELSE Done(Loop(NewBuffer(Init1(s), a, Len(initializerList), junk), 0))

\* Array::~Array
ArrayDestroy(s, a) ==
    LET Gone(x) == IF x.stop THEN x ELSE [x EXCEPT !.built[a] = FALSE]
    IN  Gone(DeleteBuffer(s, a))

\* Array::operator==: [m |-> machine, b |-> result]
ArrayEq(s, a, rightArr) ==
    LET RECURSIVE Loop(_, _)
        Loop(x, index) ==
            IF x.stop THEN Returns(x, FALSE)
            ELSE IF ~(index < x.size[a]) THEN Returns(x, TRUE)
            ELSE IF Subscript(Subscript(x, a, index), rightArr, index).stop
                 THEN Returns(Subscript(Subscript(x, a, index),
                                        rightArr, index), FALSE)
            ELSE IF Elem(x, a, index) # Elem(x, rightArr, index)
                 THEN Returns(x, FALSE)
            ELSE Loop(x, index + 1)
    IN  IF s.stop THEN Returns(s, FALSE)
        ELSE IF s.size[rightArr] # s.size[a] THEN Returns(s, FALSE)
        ELSE IF s.container[rightArr] = NULL THEN Returns(s, FALSE)
        ELSE IF s.container[rightArr] = s.container[a] THEN Returns(s, TRUE)
        ELSE Loop(s, 0)

\* Array::operator!=
ArrayNe(s, a, right) ==
    Returns(ArrayEq(s, a, right).m, ~ArrayEq(s, a, right).b)

\* An assignment that deletes the buffer and takes the pointer of the
\* right operand.
ArrayAssignShallow(s, a, rightArr, junk) ==
    LET Take(x) == IF x.stop THEN x
                   ELSE [x EXCEPT !.size[a] = x.size[rightArr],
                                  !.container[a] = x.container[rightArr]]
    IN  Take(DeleteBuffer(s, a))

\* Array::operator=
ArrayAssign(s, a, rightArr, junk) ==
    LET Step1(x) == DeleteBuffer(x, a)
        Step2(x) == NewBuffer(x, a, getSize(x, rightArr), junk)
        Step3(x) == IF x.stop THEN x
                    ELSE [x EXCEPT !.size[a] = getSize(x, rightArr)]
        RECURSIVE Loop(_, _)
        Loop(x, index) ==
            IF x.stop \/ ~(index < getSize(x, rightArr)) THEN x
            \* (*this)[index] = rightArr[index];
            ELSE Loop(Store(Subscript(Subscript(x, rightArr, index), a, index),
                            a, index, Elem(x, rightArr, index)),
                      index + 1)
    IN  Loop(Step3(Step2(Step1(s))), 0)

\* The state a call of an Array function leaves: r is the machine the call
\* leaves when the program goes on after an invalid access, t the machine
\* it leaves when the program is stopped there.  The storage of an object
\* whose constructor has thrown, or that has been destroyed, is gone.
ArrayEnds(r, t) ==
  \E s \in (IF r.fault \in {"overrun", "dangling"} THEN {r, t} ELSE {r}) :
    /\ size' = [a \in ArrayId |-> IF s.built[a] THEN s.size[a] ELSE 0]
    /\ container' = [a \in ArrayId |->
                        IF s.built[a] THEN s.container[a] ELSE NULL]
    /\ heap' = s.heap
    /\ built' = s.built
    /\ thrown' = s.thrown
    /\ fault' = s.fault
    /\ crashed' = (s.fault # "none" /\ s.stop)
    /\ err' = (s.thrown.type # "none")
    /\ op' = "none"
    /\ UNCHANGED <<data, prevPtr, nextPtr, live, firstPtr, lastPtr,
                   numberOfNodes>>

DoArrayOfSize(a, arraySize, junk) ==
    /\ Running
    /\ ~built[a]
    /\ ArrayEnds(ArrayOfSize(Arrays(FALSE), a, arraySize, junk),
                 ArrayOfSize(Arrays(TRUE), a, arraySize, junk))

DoArrayCopy(a, copyArr, junk) ==
    /\ Running
    /\ ~built[a]
    /\ built[copyArr]
    /\ ArrayEnds(ArrayCopy(Arrays(FALSE), a, copyArr, junk),
                 ArrayCopy(Arrays(TRUE), a, copyArr, junk))

DoArrayMove(a, moveArr) ==
    /\ Running
    /\ ~built[a]
    /\ built[moveArr]
    /\ ArrayEnds(ArrayMove(Arrays(FALSE), a, moveArr),
                 ArrayMove(Arrays(TRUE), a, moveArr))

DoArrayFromSource(a, ptr, at, n, junk) ==
    /\ Running
    /\ ~built[a]
    /\ ArrayEnds(ArrayFromSource(Arrays(FALSE), a,
                                 [ptr |-> ptr, at |-> at], n, junk),
                 ArrayFromSource(Arrays(TRUE), a,
                                 [ptr |-> ptr, at |-> at], n, junk))

DoArrayFromList(a, initializerList, junk) ==
    /\ Running
    /\ ~built[a]
    /\ ArrayEnds(ArrayFromList(Arrays(FALSE), a, initializerList, junk),
                 ArrayFromList(Arrays(TRUE), a, initializerList, junk))

DoArrayDestroy(a) ==
    /\ Running
    /\ built[a]
    /\ ArrayEnds(ArrayDestroy(Arrays(FALSE), a),
                 ArrayDestroy(Arrays(TRUE), a))

\* a read of a[index]
DoSubscript(a, index) ==
    /\ Running
    /\ built[a]
    /\ ArrayEnds(Subscript(Arrays(FALSE), a, index),
                 Subscript(Arrays(TRUE), a, index))

\* a[index] = v
DoAssignElem(a, index, v) ==
    /\ Running
    /\ built[a]
    /\ ArrayEnds(Store(Subscript(Arrays(FALSE), a, index), a, index, v),
                 Store(Subscript(Arrays(TRUE), a, index), a, index, v))

DoArrayEq(a, rightArr) ==
    /\ Running
    /\ built[a]
    /\ built[rightArr]
    /\ ArrayEnds(ArrayEq(Arrays(FALSE), a, rightArr).m,
                 ArrayEq(Arrays(TRUE), a, rightArr).m)

DoArrayAssign(a, rightArr, junk) ==
    /\ Running
    /\ built[a]
    /\ built[rightArr]
    /\ ArrayEnds(ArrayAssign(Arrays(FALSE), a, rightArr, junk),
                 ArrayAssign(Arrays(TRUE), a, rightArr, junk))

ArrayNext ==
    \/ \E a \in ArrayId, n \in 0..MaxSize, junk \in [1..MaxSize -> Value] :
          DoArrayOfSize(a, n, junk)
    \/ \E a \in ArrayId, junk \in [1..MaxSize -> Value] :
          \E copyArr \in ArrayId \ {a} : DoArrayCopy(a, copyArr, junk)
    \/ \E a \in ArrayId : \E moveArr \in ArrayId \ {a} : DoArrayMove(a, moveArr)
    \/ \E a \in ArrayId, ptr \in {NULL, 1}, at \in [1..MaxSize -> Value],
          n \in 0..MaxSize, junk \in [1..MaxSize -> Value] :
          DoArrayFromSource(a, ptr, at, n, junk)
    \/ \E a \in ArrayId, k \in 0..MaxSize, junk \in [1..MaxSize -> Value] :
          \E initializerList \in [1..k -> Value] :
             DoArrayFromList(a, initializerList, junk)
    \/ \E a \in ArrayId : DoArrayDestroy(a)
    \/ \E a \in ArrayId, index \in 0..MaxSize : DoSubscript(a, index)
    \/ \E a \in ArrayId, index \in 0..MaxSize, v \in Value :
          DoAssignElem(a, index, v)
    \/ \E a \in ArrayId, rightArr \in ArrayId : DoArrayEq(a, rightArr)
    \/ \E a \in ArrayId, rightArr \in ArrayId,
          junk \in [1..MaxSize -> Value] : DoArrayAssign(a, rightArr, junk)

ArraySpec == Init /\ [][ArrayNext]_vars

\* C31: every indexed access to an Array whose buffer has been moved away
\* (container is null), with any index, throws the std::logic_error
\* "Container deleted or has not been allocated properly!" and reads
\* nothing through the null pointer.
C31_MovedFromThrows ==
    Running =>
        \A a \in ArrayId : \A index \in 0..(MaxSize + 1) :
            (built[a] /\ container[a] = NULL) =>
                LET r == Subscript(Arrays(FALSE), a, index)
                IN  /\ r.fault = "none"
                    /\ r.thrown.type = "logic_error"
                    /\ r.thrown.what =
                         "Container deleted or has not been allocated properly!"

\* C32: for an Array that owns a buffer, operator[](i) returns element i
\* for every i < size and changes nothing; for every i >= size (i = size
\* included) it throws std::range_error with the index and the size, and
\* changes nothing.
C32_BoundsChecked ==
    Running =>
        \A a \in ArrayId : \A index \in 0..(MaxSize + 1) :
            (built[a] /\ container[a] # NULL) =>
                LET r == Subscript(Arrays(FALSE), a, index)
                IN  /\ r.fault = "none"
                    /\ r.size = size /\ r.container = container
                    /\ r.heap = heap /\ r.built = built
                    /\ index < size[a] =>
                          /\ ~r.stop
                          /\ r.thrown.type = "none"
                          /\ Elem(r, a, index) = heap[container[a]][index + 1]
                    /\ index >= size[a] =>
                          /\ r.stop
                          /\ r.thrown.type = "range_error"
                          /\ r.thrown.index = index
                          /\ r.thrown.size = size[a]

\* An array holds 1, 2: element 1 is read as 2, and the access to element 2
\* throws the range error with index 2 and size 2.
C32_Witness ==
    /\ Running
    /\ built[1] /\ container[1] # NULL /\ size[1] = 2
    /\ heap[container[1]] = <<1, 2>>
    /\ ~Subscript(Arrays(FALSE), 1, 1).stop
    /\ Elem(Subscript(Arrays(FALSE), 1, 1), 1, 1) = 2
    /\ Subscript(Arrays(FALSE), 1, 2).thrown =
         [type |-> "range_error", what |-> "Out-of-Range Exception Occured",
          index |-> 2, size |-> 2]

\* C33: a == b completes without an invalid access and is true exactly if
\* the sizes match, each of the two arrays owns a buffer, and the elements
\* are pairwise equal (so an array that owns a buffer equals itself); if
\* either operand has had its buffer moved away the result is false; a != b
\* is the negation of a == b.
C33_EqualityElementWise ==
    Running =>
        \A a \in ArrayId : \A rightArr \in ArrayId :
            (built[a] /\ built[rightArr]) =>
                LET e == ArrayEq(Arrays(FALSE), a, rightArr)
                    same == /\ size[a] = size[rightArr]
                            /\ container[a] # NULL
                            /\ container[rightArr] # NULL
                            /\ heap[container[a]] = heap[container[rightArr]]
                IN  /\ e.m.fault = "none" /\ ~e.m.stop
                    /\ e.b = same
                    /\ ArrayNe(Arrays(FALSE), a, rightArr).b = ~e.b

\* C34: an Array copy-constructed from an array that owns elements has the
\* size of the source and the same elements in a buffer of its own, and
\* leaves the source as it was; a later write to an element of either
\* array does not change the other.
C34_CopyIsDeep ==
    Running =>
        \A a \in ArrayId : \A copyArr \in ArrayId \ {a} :
            \A junk \in [1..MaxSize -> Value] :
                (~built[a] /\ built[copyArr] /\ container[copyArr] # NULL
                    /\ size[copyArr] > 0) =>
                    LET r == ArrayCopy(Arrays(FALSE), a, copyArr, junk)
                        old == heap[container[copyArr]]
                    IN  /\ r.fault = "none" /\ ~r.stop
                        /\ r.built[a]
                        /\ r.size[a] = size[copyArr]
                        /\ r.container[a] # NULL
                        /\ r.container[a] # r.container[copyArr]
                        /\ r.heap[r.container[a]] = old
                        /\ r.size[copyArr] = size[copyArr]
                        /\ r.container[copyArr] = container[copyArr]
                        /\ r.heap[r.container[copyArr]] = old
                        /\ ArrayEq(r, a, copyArr).b
                        /\ \A index \in 0..(size[copyArr] - 1) : \A v \in Value :
                              /\ Store(Subscript(r, a, index), a, index, v)
                                    .heap[r.container[copyArr]] = old
                              /\ Store(Subscript(r, copyArr, index),
                                       copyArr, index, v)
                                    .heap[r.container[a]] = old

\* The array 1, 2 is copied; writing 2 to element 0 of the copy leaves the
\* source 1, 2.
C34_Witness ==
    /\ Running
    /\ built[1] /\ ~built[2] /\ container[1] # NULL
    /\ heap[container[1]] = <<1, 2>>
    /\ LET r == ArrayCopy(Arrays(FALSE), 2, 1, <<2, 1>>)
       IN  /\ r.built[2]
           /\ r.heap[r.container[2]] = <<1, 2>>
           /\ Store(Subscript(r, 2, 0), 2, 0, 2).heap[r.container[2]] = <<2, 2>>
           /\ Store(Subscript(r, 2, 0), 2, 0, 2).heap[r.container[1]] = <<1, 2>>

\* C35: for an array b that owns elements and a distinct array a, whatever
\* a held before (elements of any size, no buffer after a move), a = b
\* completes and leaves a with the size and the elements of b in an
\* allocated buffer that is not the buffer of b, and b as it was.
C35_AssignIsDeep ==
    Running =>
        \A a \in ArrayId : \A rightArr \in ArrayId \ {a} :
            \A junk \in [1..MaxSize -> Value] :
                (built[a] /\ built[rightArr] /\ container[rightArr] # NULL
                    /\ size[rightArr] > 0) =>
                    LET r == ArrayAssign(Arrays(FALSE), a, rightArr, junk)
                        old == heap[container[rightArr]]
                    IN  /\ r.fault = "none" /\ ~r.stop
                        /\ r.thrown.type = "none"
                        /\ r.size[a] = size[rightArr]
                        /\ r.container[a] \in DOMAIN r.heap
                        /\ r.container[a] # r.container[rightArr]
                        /\ r.heap[r.container[a]] = old
                        /\ r.size[rightArr] = size[rightArr]
                        /\ r.container[rightArr] = container[rightArr]
                        /\ r.heap[r.container[rightArr]] = old
                        /\ DOMAIN r.heap = {r.container[a], r.container[rightArr]}
                        /\ r.built = built

\* An array of one element is assigned the array 1, 2.
C35_Witness ==
    /\ Running
    /\ built[1] /\ built[2]
    /\ container[1] # NULL /\ container[2] # NULL
    /\ heap[container[1]] = <<2>>
    /\ heap[container[2]] = <<1, 2>>
    /\ LET r == ArrayAssign(Arrays(FALSE), 1, 2, <<2, 2>>)
       IN  /\ r.size[1] = 2
           /\ r.heap[r.container[1]] = <<1, 2>>
           /\ r.heap[r.container[2]] = <<1, 2>>
           /\ r.container[1] # r.container[2]

\* C36: in every state of an Array object (constructed, moved from,
\* assigned from any array) its buffer is non-null exactly if its stored
\* size is greater than 0, and the buffer holds exactly size elements.
C36_BufferIffCount ==
    fault = "none" =>
        \A a \in ArrayId :
            built[a] =>
                /\ container[a] # NULL <=> size[a] > 0
                /\ container[a] # NULL =>
                      /\ container[a] \in DOMAIN heap
                      /\ Len(heap[container[a]]) = size[a]

\* C37: constructing an Array of size 0 (by size, from a raw buffer with
\* length 0, from an empty initializer list, by copying or moving an array
\* whose getSize() is 0) throws std::logic_error "Array size cannot be
\* zero!"; constructing from a null raw buffer with a length above 0 throws
\* std::logic_error "Invalid source!"; in each case no object is built, no
\* buffer is allocated and the other objects are as they were.
C37_ConstructionFails ==
    Running =>
        \A a \in ArrayId : \A junk \in [1..MaxSize -> Value] :
            ~built[a] =>
                LET InvalidSize(r) ==
                        /\ r.fault = "none"
                        /\ r.thrown.type = "logic_error"
                        /\ r.thrown.what = "Array size cannot be zero!"
                        /\ r.heap = heap /\ r.built = built
                        /\ \A b \in ArrayId \ {a} :
                              /\ r.size[b] = size[b]
                              /\ r.container[b] = container[b]
                    InvalidSource(r) ==
                        /\ r.fault = "none"
                        /\ r.thrown.type = "logic_error"
                        /\ r.thrown.what = "Invalid source!"
                        /\ r.heap = heap /\ r.built = built
                        /\ \A b \in ArrayId \ {a} :
                              /\ r.size[b] = size[b]
                              /\ r.container[b] = container[b]
                IN  /\ InvalidSize(ArrayOfSize(Arrays(FALSE), a, 0, junk))
                    /\ InvalidSize(ArrayFromList(Arrays(FALSE), a, <<>>, junk))
                    /\ \A ptr \in {NULL, 1} :
                          InvalidSize(ArrayFromSource(Arrays(FALSE), a,
                                          [ptr |-> ptr, at |-> junk], 0, junk))
                    /\ \A n \in 1..MaxSize :
                          InvalidSource(ArrayFromSource(Arrays(FALSE), a,
                                          [ptr |-> NULL, at |-> junk], n, junk))
                    /\ \A b \in ArrayId \ {a} :
                          (built[b] /\ getSize(Arrays(FALSE), b) = 0) =>
                              /\ InvalidSize(ArrayCopy(Arrays(FALSE), a, b, junk))
                              /\ InvalidSize(ArrayMove(Arrays(FALSE), a, b))

\* Array 1 has been moved from and array 2 destroyed: copying and moving
\* array 1 into a new object fail.
C37_Witness ==
    /\ Running
    /\ built[1] /\ ~built[2]
    /\ container[1] = NULL /\ size[1] = 2
    /\ ArrayMove(Arrays(FALSE), 2, 1).thrown.what = "Array size cannot be zero!"
    /\ ArrayCopy(Arrays(FALSE), 2, 1, <<1, 1>>).thrown.what =
          "Array size cannot be zero!"
    /\ ~ArrayMove(Arrays(FALSE), 2, 1).built[2]

\* C40: the self-assignment a = a completes and leaves the size and every
\* element of a as they were.
C40_SelfAssignKeeps ==
    Running =>
        \A a \in ArrayId : \A junk \in [1..MaxSize -> Value] :
            built[a] =>
                LET r == ArrayAssign(Arrays(FALSE), a, a, junk)
                IN  /\ r.fault = "none" /\ ~r.stop
                    /\ r.size[a] = size[a]
                    /\ container[a] # NULL =>
                          /\ r.container[a] \in DOMAIN r.heap
                          /\ r.heap[r.container[a]] = heap[container[a]]

====
